---------------------------- MODULE Spec2Model ----------------------------
(***************************************************************************)
(* A model of daily_briefing.py: the configuration read at import, the    *)
(* sequential run of the __main__ block (location resolution, API key     *)
(* validation, feed/weather/novelty fetches, deduplication, truncation,   *)
(* formatting, printing) and the pure functions it calls.                 *)
(*                                                                         *)
(* Text is a sequence of tokens.  A token is a one-character string of a  *)
(* small alphabet (for text that comes from the outside world: titles,    *)
(* descriptions, links, weather descriptions) or a literal chunk of the   *)
(* program ("## Weather for ", "\n", ...).  An optional value is a        *)
(* sequence of length 0 (Python None / no element) or 1.                  *)
(***************************************************************************)
EXTENDS Integers, Sequences, FiniteSets, TLC

VARIABLES
    \* configuration, read once at import (lines 17-67, 511)
    DEBUG, NUM_NEWS_ITEMS, SHOW_FULL_STORY_PREVIEW, SHOW_FULL_STORY_PARAGRAPHS,
    SHOW_CONTINUE_LINK,
    CONVERSATIONAL_MODE, ENABLE_RANDOM_FACT, ENABLE_RANDOM_JOKE, ENABLE_ONTHISDAY,
    CUSTOM_LOCATION_NAME, CUSTOM_LOCATION_LATITUDE, CUSTOM_LOCATION_LONGITUDE,
    argv, env_api_key,
    \* the run of __main__ (lines 482-570)
    pc, selected_location, all_news_promises, all_news_results, unique_news,
    final_news_items, weather_data, random_fact, random_joke, onthisday_event,
    \* what the process has shown to the outside
    stdout, stderr, exit_status, requests,
    \* what the feeds have answered so far, in the order they were asked
    answers,
    \* one call of a function under study: its arguments, progress and result
    call

config_vars == <<DEBUG, NUM_NEWS_ITEMS, SHOW_FULL_STORY_PREVIEW,
                 SHOW_FULL_STORY_PARAGRAPHS, SHOW_CONTINUE_LINK,
                 CONVERSATIONAL_MODE, ENABLE_RANDOM_FACT, ENABLE_RANDOM_JOKE,
                 ENABLE_ONTHISDAY, CUSTOM_LOCATION_NAME, CUSTOM_LOCATION_LATITUDE,
                 CUSTOM_LOCATION_LONGITUDE, argv, env_api_key>>

run_vars == <<pc, selected_location, all_news_promises, all_news_results, unique_news,
              final_news_items, weather_data, random_fact, random_joke, onthisday_event>>

io_vars == <<stdout, stderr, exit_status, requests, answers>>

vars == <<config_vars, run_vars, io_vars, call>>

---------------------------------------------------------------------------
(* Optional values and text.                                               *)

None == <<>>

Some(x) == <<x>>

\* Python truthiness of an optional text: None and "" are both falsy.
Truthy(opt) == opt # None /\ opt[1] # <<>>

Whitespace == {" "}

\* str.lower() on one token: a character of the alphabet, or a whole word given
\* on the command line.
LowerChar(c) ==
    CASE c = "A" -> "a"
      [] c = "B" -> "b"
      [] c = "X" -> "x"
      [] c = "L" -> "l"
      [] c = "R" -> "r"
      [] c = "London" -> "london"
      [] OTHER -> c

\* str.upper() on one character of the alphabet.
UpperChar(c) ==
    CASE c = "a" -> "A"
      [] c = "b" -> "B"
      [] c = "x" -> "X"
      [] c = "l" -> "L"
      [] c = "r" -> "R"
      [] OTHER -> c

StrLower(s) == [i \in 1..Len(s) |-> LowerChar(s[i])]

RECURSIVE LStrip(_)
LStrip(s) ==
    IF s # <<>> /\ Head(s) \in Whitespace THEN LStrip(Tail(s)) ELSE s

RECURSIVE RStrip(_)
RStrip(s) ==
    IF s # <<>> /\ s[Len(s)] \in Whitespace
    THEN RStrip(SubSeq(s, 1, Len(s) - 1))
    ELSE s

\* str.strip(): leading and trailing whitespace removed.
Strip(s) == RStrip(LStrip(s))

\* str.capitalize(): first character upper-cased, the rest lower-cased.
Capitalize(s) ==
    [i \in 1..Len(s) |-> IF i = 1 THEN UpperChar(s[i]) ELSE LowerChar(s[i])]

\* Python slice s[:n] of a list (n may exceed the length or be negative).
Prefix(s, n) ==
    IF n >= 0
    THEN SubSeq(s, 1, IF n < Len(s) THEN n ELSE Len(s))
    ELSE SubSeq(s, 1, IF Len(s) + n > 0 THEN Len(s) + n ELSE 0)

Max(a, b) == IF a >= b THEN a ELSE b

---------------------------------------------------------------------------
(* deduplicate_news (lines 232-245), one loop iteration per step.          *)

\* The identifier without the strip() calls.
identifier_unstripped(item) == <<StrLower(item.title), StrLower(item.description)>>

\* line 241: the identifier of an item.
identifier(item) ==
    <<Strip(StrLower(item.title)), Strip(StrLower(item.description))>>

\* lines 239-244: the loop body applied to the item at position i.
dedup_step(st, item) ==
    IF identifier(item) \notin st.seen_identifiers
    THEN [unique_news |-> Append(st.unique_news, item),
          seen_identifiers |-> st.seen_identifiers \cup {identifier(item)}]
    ELSE st

\* lines 239-244: the loop; the state after an iteration is a value, computed
\* once, that the next iteration starts from.
RECURSIVE dedup_loop(_, _)
dedup_loop(st, rest) ==
    IF rest = <<>> THEN st
    ELSE CHOOSE final \in { dedup_loop(after, Tail(rest)) :
                              after \in { dedup_step(st, Head(rest)) } } : TRUE

\* lines 232-245: the whole function.
deduplicate_news(all_news) ==
    dedup_loop([unique_news |-> <<>>, seen_identifiers |-> {}], all_news).unique_news

---------------------------------------------------------------------------
(* Lines written to the standard output and to the error channel.          *)

\* print(..., file=sys.stdout) / print(..., file=sys.stderr): one line each.
Line(level, src, text) == [level |-> level, src |-> src, text |-> text]

\* The debug line printed whether or not DEBUG is set.
DebugLine_unconditional(src) == <<Line("DEBUG", src, <<>>)>>

\* `if DEBUG: print("DEBUG: ...", file=sys.stdout)` at the head of a fetcher.
DebugLine(src) == IF DEBUG THEN <<Line("DEBUG", src, <<>>)>> ELSE <<>>

---------------------------------------------------------------------------
(* fetch_weather (lines 247-279).                                          *)
(* A provider response is [net, json, data]: net is what requests.get and  *)
(* raise_for_status do, json whether the body decodes, data the decoded    *)
(* object: [daily |-> optional list of entries], an entry being            *)
(* [weather |-> optional list of [description |-> optional text],          *)
(*  temp |-> optional [max, min optional], feels_like |-> optional [day]]. *)
(* Temperatures are in tenths of a degree.                                 *)

\* What a call gives back: the returned value, or the exception it raises.
Return(value, out, err) == [raised |-> None, value |-> value, out |-> out, err |-> err]

Raise(exc, out, err) == [raised |-> Some(exc), value |-> None, out |-> out, err |-> err]

\* lines 264-270: the summary built from data['daily'][0]; the subscripts are
\* evaluated in source order and the first one that fails decides the exception.
weather_summary(today) ==
    IF today.weather = None THEN [exc |-> "KeyError"]
    ELSE IF today.weather[1] = <<>> THEN [exc |-> "IndexError"]
    ELSE IF today.weather[1][1].description = None THEN [exc |-> "KeyError"]
    ELSE IF today.temp = None THEN [exc |-> "KeyError"]
    ELSE IF today.temp[1].max = None THEN [exc |-> "KeyError"]
    ELSE IF today.temp[1].min = None THEN [exc |-> "KeyError"]
    ELSE IF today.feels_like = None THEN [exc |-> "KeyError"]
    ELSE IF today.feels_like[1].day = None THEN [exc |-> "KeyError"]
    ELSE [exc |-> "none",
          value |-> [description |-> today.weather[1][1].description[1],
                     max_temp |-> today.temp[1].max[1],
                     min_temp |-> today.temp[1].min[1],
                     feels_like |-> today.feels_like[1].day[1]]]

\* lines 271-279: the except clauses of fetch_weather.
weather_handles(exc) == exc \in {"RequestException", "JSONDecodeError", "KeyError"}

fetch_weather(resp) ==
    LET out == DebugLine("fetch_weather")
        err == <<Line("Error", "fetch_weather", <<>>)>>
        warn == <<Line("Warning", "fetch_weather", <<>>)>>
        caught(exc) == IF weather_handles(exc) THEN Return(None, out, err)
                       ELSE Raise(exc, out, <<>>)
    IN  IF resp.net # "ok" THEN caught("RequestException")
        ELSE IF resp.json # "ok" THEN caught("JSONDecodeError")
        ELSE IF resp.data.daily = None \/ resp.data.daily[1] = <<>>
             THEN Return(None, out, warn)
        ELSE LET s == weather_summary(resp.data.daily[1][1])
             IN  IF s.exc = "none" THEN Return(Some(s.value), out, <<>>)
                 ELSE caught(s.exc)

---------------------------------------------------------------------------
(* The novelty fetchers (lines 281-366): a provider outcome is an error    *)
(* or a decoded object with an optional text.                              *)

\* fetch_random_fact / fetch_random_joke / fetch_on_this_day_event: every
\* exception is caught (the last clause is `except Exception`).
fetch_novelty(src, resp) ==
    IF resp.net # "ok"
    THEN Return(None, DebugLine(src), <<Line("Error", src, <<>>)>>)
    ELSE Return(IF Truthy(resp.text) THEN resp.text ELSE None, DebugLine(src), <<>>)

---------------------------------------------------------------------------
(* format_briefing (lines 380-479) and get_time_based_greeting (369-377).  *)
(* The wall clock is read inside the formatter: date.today() at line 386   *)
(* and datetime.now().hour at line 371.                                    *)

Digit(n) == CASE n = 0 -> "0" [] n = 1 -> "1" [] n = 2 -> "2" [] n = 3 -> "3"
              [] n = 4 -> "4" [] n = 5 -> "5" [] n = 6 -> "6" [] n = 7 -> "7"
              [] n = 8 -> "8" [] n = 9 -> "9"

\* str(n) of an integer, as the f-strings format it.
RECURSIVE Str(_)
Str(n) ==
    IF n < 0 THEN <<"-">> \o Str(-n)
    ELSE IF n < 10 THEN <<Digit(n)>>
    ELSE Str(n \div 10) \o <<Digit(n % 10)>>

\* round(x) of a float given in tenths: to the nearest integer, ties to even.
Round(tenths) ==
    LET q == tenths \div 10
        r == tenths % 10
    IN  IF r < 5 THEN q
        ELSE IF r > 5 THEN q + 1
        ELSE IF q % 2 = 0 THEN q ELSE q + 1

\* date.weekday(): 0 is Monday.
Weekday(d) ==
    LET t == <<0, 3, 2, 5, 0, 3, 5, 1, 4, 6, 2, 4>>
        y == IF d.month < 3 THEN d.year - 1 ELSE d.year
        sunday0 == (y + (y \div 4) - (y \div 100) + (y \div 400) + t[d.month] + d.day) % 7
    IN  (sunday0 + 6) % 7

DayName == <<"Monday", "Tuesday", "Wednesday", "Thursday", "Friday", "Saturday", "Sunday">>

MonthName == <<"January", "February", "March", "April", "May", "June", "July",
               "August", "September", "October", "November", "December">>

\* line 386: date.today().strftime('%A, %d %B %Y').
Strftime(d) ==
    <<DayName[Weekday(d) + 1], ", ">>
    \o (IF d.day < 10 THEN <<"0">> ELSE <<>>) \o Str(d.day)
    \o <<" ", MonthName[d.month], " ">> \o Str(d.year)

\* The greeting with the morning beginning at midnight instead of 5.
greeting_morning_from_midnight(current_hour) ==
    IF current_hour < 12 THEN "Good morning"
    ELSE IF 12 <= current_hour /\ current_hour < 18 THEN "Good afternoon"
    ELSE "Good evening"

\* The greeting with the morning ending at 10 instead of 12.
greeting_morning_until_ten(current_hour) ==
    IF 5 <= current_hour /\ current_hour < 10 THEN "Good morning"
    ELSE IF 10 <= current_hour /\ current_hour < 18 THEN "Good afternoon"
    ELSE "Good evening"

\* lines 369-377, current_hour being datetime.now().hour.
get_time_based_greeting(current_hour) ==
    IF 5 <= current_hour /\ current_hour < 12 THEN "Good morning"
    ELSE IF 12 <= current_hour /\ current_hour < 18 THEN "Good afternoon"
    ELSE "Good evening"

\* "\n".join(parts)
RECURSIVE Join(_)
Join(parts) ==
    IF parts = <<>> THEN <<>>
    ELSE IF Len(parts) = 1 THEN parts[1]
    ELSE parts[1] \o <<"\n">> \o Join(Tail(parts))

\* lines 388-393: the first line and the blank line after it.
heading_parts(today, current_hour) ==
    IF CONVERSATIONAL_MODE
    THEN << <<get_time_based_greeting(current_hour), "! This is your daily briefing for ">>
            \o Strftime(today) \o <<".">>, <<>> >>
    ELSE << <<"# Daily Briefing - ">> \o Strftime(today), <<>> >>

\* lines 395-408: the weather section.
weather_parts(wd, location_name) ==
    << (IF CONVERSATIONAL_MODE
        THEN <<"Here's the weather for ">> \o location_name \o <<":">>
        ELSE <<"## Weather for ">> \o location_name) >>
    \o (IF wd # None
        THEN << <<"Today's forecast: ">> \o Capitalize(wd[1].description),
                <<"The maximum temperature expected is ">> \o Str(Round(wd[1].max_temp))
                    \o <<"°C, with a minimum of ">> \o Str(Round(wd[1].min_temp)) \o <<"°C.">>,
                <<"It will feel like ">> \o Str(Round(wd[1].feels_like)) \o <<"°C.">>,
                <<>> >>
        ELSE << <<"Weather forecast currently unavailable.">>, <<>> >>)

\* lines 419-435: the lines of news item number i (0-based, as enumerate gives it).
item_parts(i, item) ==
    IF CONVERSATIONAL_MODE
    THEN << <<"Headline number ">> \o Str(i + 1) \o <<" from ", item.source, ": ">>
                \o item.title \o <<".">>,
            <<"Summary: ">> \o item.description \o <<".">> >>
         \o (IF SHOW_FULL_STORY_PREVIEW /\ item.full_story_preview # <<>>
             THEN << <<"Here's a preview of the story:">>, item.full_story_preview >>
                  \o (IF SHOW_CONTINUE_LINK
                      THEN << <<"You can continue reading more at the link: ">> \o item.link >>
                      ELSE <<>>)
             ELSE <<>>)
         \o << <<>> >>
    ELSE << <<"### ">> \o Str(i + 1) \o <<". ">> \o item.title \o <<" (", item.source, ")">>,
            item.description >>
         \o (IF SHOW_FULL_STORY_PREVIEW /\ item.full_story_preview # <<>>
             THEN << item.full_story_preview >>
                  \o (IF SHOW_CONTINUE_LINK
                      THEN << <<"[Continue reading at ">> \o item.link \o <<"]">> >>
                      ELSE <<>>)
             ELSE <<>>)
         \o << <<>> >>

RECURSIVE items_parts(_, _)
items_parts(i, news_items) ==
    IF i >= Len(news_items) THEN <<>>
    ELSE item_parts(i, news_items[i + 1]) \o items_parts(i + 1, news_items)

\* lines 410-438: the news section.
news_parts(news_items) ==
    << (IF CONVERSATIONAL_MODE THEN <<"The top news headlines for you are:">>
        ELSE <<"## Top News Headlines">>), <<>> >>
    \o (IF news_items # <<>> THEN items_parts(0, news_items)
        ELSE << <<"No news headlines available.">>, <<>> >>)

\* The optional section left out, header included, when its value is absent.
novelty_parts_omitted_when_absent(enabled, conv_header, header, value, unavailable) ==
    IF enabled /\ Truthy(value)
    THEN << <<(IF CONVERSATIONAL_MODE THEN conv_header ELSE header)>>, value[1], <<>> >>
    ELSE <<>>

\* lines 440-477: one optional section (fact, joke, on this day).
novelty_parts(enabled, conv_header, header, value, unavailable) ==
    IF enabled
    THEN << <<(IF CONVERSATIONAL_MODE THEN conv_header ELSE header)>> >>
         \o (IF Truthy(value) THEN << value[1], <<>> >>
             ELSE << <<unavailable>>, <<>> >>)
    ELSE <<>>

\* lines 385-478: briefing_parts.
briefing_parts(wd, news_items, fact, joke, event, location_name, today, current_hour) ==
    heading_parts(today, current_hour)
    \o weather_parts(wd, location_name)
    \o news_parts(news_items)
    \o novelty_parts(ENABLE_RANDOM_FACT, "Did you know this fact?", "## Fact of the Day",
                     fact, "Fact of the day currently unavailable.")
    \o novelty_parts(ENABLE_RANDOM_JOKE, "Here's a joke to start your day:",
                     "## Joke of the Day", joke, "Joke of the day currently unavailable.")
    \o novelty_parts(ENABLE_ONTHISDAY, "And finally, on this day in history:",
                     "## On This Day in History", event,
                     "On this day in history currently unavailable.")

\* lines 380-479: the text returned, read at wall-clock date `today` and hour
\* `current_hour`.
format_briefing(wd, news_items, fact, joke, event, location_name, today, current_hour) ==
    Join(briefing_parts(wd, news_items, fact, joke, event, location_name, today, current_hour))

---------------------------------------------------------------------------
(* get_article_preview (lines 93-156) and fetch_news (lines 159-229).      *)

\* lines 71-79
RSS_FEEDS ==
    << [url |-> "https://feeds.bbci.co.uk/news/rss.xml", source |-> "BBC News"],
       [url |-> "https://feeds.bbci.co.uk/news/england/rss.xml", source |-> "BBC England"],
       [url |-> "https://feeds.bbci.co.uk/news/world/rss.xml", source |-> "BBC World"],
       [url |-> "https://feeds.bbci.co.uk/news/england/essex/rss.xml", source |-> "BBC Essex"],
       [url |-> "https://feeds.skynews.com/feeds/rss/home.xml", source |-> "Sky News"],
       [url |-> "https://feeds.skynews.com/feeds/rss/uk.xml", source |-> "Sky News UK"],
       [url |-> "https://feeds.skynews.com/feeds/rss/world.xml", source |-> "Sky News World"] >>

\* An external call: the function that makes it and the URL it asks for.
Request(fn, url) == [fn |-> fn, url |-> url]

\* What a fetcher gives back, with the requests it made.
Result(raised, value, out, err, reqs) ==
    [raised |-> raised, value |-> value, out |-> out, err |-> err, reqs |-> reqs]

\* lines 151-156: the except clauses of get_article_preview; the second one is
\* `except Exception`.
preview_handles(exc) == exc \in {"RequestException", "Exception"}

\* lines 107-116: the selectors of the article's container, in order; a
\* selector without attrs has no class.
content_selectors ==
    << [name |-> "div", class |-> "sdc-article-body"],
       [name |-> "div", class |-> "story-body__inner"],
       [name |-> "div", class |-> "article__content"],
       [name |-> "div", class |-> "article-body"],
       [name |-> "article", class |-> ""],
       [name |-> "main", class |-> ""] >>

\* A parsed page is the sequence of its elements in document order, each with
\* its nesting depth: the descendants of an element are the elements that
\* follow it for as long as they are deeper.  A paragraph carries the text
\* get_text(strip=True) gives and the number of characters of that text.
Descendants(doc, c) ==
    { j \in (c + 1)..Len(doc) : \A m \in (c + 1)..j : doc[m].depth > doc[c].depth }

Ancestors(doc, i) == { c \in 1..(i - 1) : i \in Descendants(doc, c) }

\* lines 121-124: soup.find(name, **attrs), the first matching element in
\* document order, 0 standing for None.
soup_find(doc, selector) ==
    LET found == { i \in 1..Len(doc) :
                     /\ doc[i].name = selector.name
                     /\ selector.class # "" => doc[i].class = selector.class }
    IN  IF found = {} THEN 0 ELSE CHOOSE i \in found : \A j \in found : i <= j

\* lines 118-128: the loop over the selectors from the k-th one on, stopping at
\* the first that finds an element.
RECURSIVE target_container(_, _)
target_container(doc, k) ==
    IF k > Len(content_selectors) THEN 0
    ELSE LET found == soup_find(doc, content_selectors[k])
         IN  IF found # 0 THEN found ELSE target_container(doc, k + 1)

\* lines 131-137: find_all('p') in the container, or in the whole page when
\* there is none; positions in document order.
all_p_tags(doc) ==
    LET container == target_container(doc, 1)
        scope == IF container # 0 THEN Descendants(doc, container) ELSE 1..Len(doc)
    IN  SelectSeq([i \in 1..Len(doc) |-> i],
                  LAMBDA i : i \in scope /\ doc[i].name = "p")

\* The test of line 144 without the find_parent conjuncts.
substantial_whatever_the_ancestors(doc, i) ==
    doc[i].text # <<>> /\ doc[i].length > 100

\* line 144: the paragraph is kept.
substantial(doc, i) ==
    /\ doc[i].text # <<>>
    /\ doc[i].length > 100
    /\ ~\E a \in Ancestors(doc, i) : doc[a].name \in {"header", "footer", "nav"}

\* lines 139-147: the loop over the paragraphs, left as soon as
\* num_paragraphs texts are collected.
RECURSIVE paragraphs_loop(_, _, _, _)
paragraphs_loop(doc, p_tags, paragraphs_content, num_paragraphs) ==
    IF p_tags = <<>> THEN paragraphs_content
    ELSE IF substantial(doc, Head(p_tags))
         THEN LET collected == Append(paragraphs_content, doc[Head(p_tags)].text)
              IN  IF Len(collected) >= num_paragraphs THEN collected
                  ELSE paragraphs_loop(doc, Tail(p_tags), collected, num_paragraphs)
         ELSE paragraphs_loop(doc, Tail(p_tags), paragraphs_content, num_paragraphs)

\* "\n\n".join(parts)
RECURSIVE JoinBlank(_)
JoinBlank(parts) ==
    IF parts = <<>> THEN <<>>
    ELSE IF Len(parts) = 1 THEN parts[1]
    ELSE parts[1] \o <<"\n", "\n">> \o JoinBlank(Tail(parts))

\* lines 104-149: the text extracted from the parsed page.
preview_text(doc, num_paragraphs) ==
    LET paragraphs_content == paragraphs_loop(doc, all_p_tags(doc), <<>>, num_paragraphs)
    IN  IF paragraphs_content # <<>>
        THEN JoinBlank(Prefix(paragraphs_content, num_paragraphs))
        ELSE <<>>

\* lines 93-156.  resp.net is what requests.get and raise_for_status do,
\* resp.parse whether the page parses, resp.doc the parsed page.
get_article_preview(article_url, num_paragraphs, resp) ==

    LET out == DebugLine("get_article_preview")
        reqs == <<Request("get_article_preview", article_url)>>
        err == <<Line("Error", "get_article_preview", <<>>)>>
        caught(exc) == IF preview_handles(exc) THEN Result(None, <<>>, out, err, reqs)
                       ELSE Result(Some(exc), <<>>, out, <<>>, reqs)
    IN  IF resp.net # "ok" THEN caught("RequestException")
        ELSE IF resp.parse # "ok" THEN caught("Exception")
        ELSE Result(None, preview_text(resp.doc, num_paragraphs), out, <<>>, reqs)

\* line 198
fetch_limit_per_source == Max(NUM_NEWS_ITEMS, 10) * 2

\* The text of a child element: the element is absent (None), or present with
\* a text that may be empty.  `e is not None and e.text`:
HasText(e) == Truthy(e)

\* line 204
item_link(item_element) ==
    IF HasText(item_element.link) THEN Strip(item_element.link[1]) ELSE <<"#">>

\* The test of line 214 without the SHOW_FULL_STORY_PREVIEW conjunct.
wants_preview_any_flag(link) == link # <<>> /\ link # <<"#">>

\* line 214: whether the article page of an item is fetched.
wants_preview(link) == SHOW_FULL_STORY_PREVIEW /\ link # <<>> /\ link # <<"#">>

\* lines 200-219: the loop body for one item element; presp is what the article
\* page answers if it is asked for.
news_item(item_element, source_name, presp) ==
    LET link == item_link(item_element)
        pv == IF wants_preview(link)
              THEN get_article_preview(link, SHOW_FULL_STORY_PARAGRAPHS, presp)
              ELSE Result(None, <<>>, <<>>, <<>>, <<>>)
    IN  Result(pv.raised,
               [title |-> IF HasText(item_element.title)
                          THEN Strip(item_element.title[1]) ELSE <<"No Title">>,
                description |-> IF HasText(item_element.description)
                                THEN Strip(item_element.description[1])
                                ELSE <<"No Description">>,
                link |-> link,
                source |-> source_name,
                full_story_preview |-> pv.value],
               pv.out, pv.err, pv.reqs)

\* lines 199-219: the loop over the item elements, stopping at an exception.
RECURSIVE news_loop(_, _, _, _)
news_loop(acc, elements, source_name, presps) ==
    IF elements = <<>> \/ acc.raised # None THEN acc
    ELSE CHOOSE final \in
           { news_loop(Result(r.raised, Append(acc.value, r.value), acc.out \o r.out,
                              acc.err \o r.err, acc.reqs \o r.reqs),
                       Tail(elements), source_name, Tail(presps)) :
               r \in { news_item(Head(elements), source_name, Head(presps)) } } : TRUE

\* The except clauses of fetch_news without the ones for ParseError and Exception.
news_handles_requests_only(exc) == exc = "RequestException"

\* lines 221-229: the except clauses of fetch_news; the last one is
\* `except Exception`.
news_handles(exc) == exc \in {"RequestException", "ParseError", "Exception"}

\* lines 159-229.  resp.net is what requests.get and raise_for_status do, resp.xml
\* whether the body parses, resp.root the children of the root element:
\* [channel |-> optional list of item elements, feed |-> optional list of entries].
fetch_news(feed, resp, presps) ==
    LET out == DebugLine("fetch_news")
        reqs == <<Request("fetch_news", <<feed.url>>)>>
        err == <<Line("Error", "fetch_news", <<>>)>>
        warn == <<Line("Warning", "fetch_news", <<>>)>>
        caught(exc, o, e, q) == IF news_handles(exc) THEN Result(None, <<>>, o, e \o err, q)
                                ELSE Result(Some(exc), <<>>, o, e, q)
    IN  IF resp.net # "ok" THEN caught("RequestException", out, <<>>, reqs)
        ELSE IF resp.xml # "ok" THEN caught("ParseError", out, <<>>, reqs)
        ELSE IF resp.root.channel = None /\ resp.root.feed = None
             THEN Result(None, <<>>, out, warn, reqs)
        ELSE LET out2 == IF resp.root.channel = None THEN out \o DebugLine("fetch_news")
                         ELSE out
                 items_elements == IF resp.root.channel = None THEN resp.root.feed[1]
                                   ELSE resp.root.channel[1]
             IN  IF items_elements = <<>> THEN Result(None, <<>>, out2, warn, reqs)
                 ELSE LET r == news_loop(Result(None, <<>>, out2, <<>>, reqs),
                                         Prefix(items_elements, fetch_limit_per_source),
                                         feed.source, presps)
                      IN  IF r.raised = None THEN r
                          ELSE caught(r.raised[1], r.out, r.err, r.reqs)

---------------------------------------------------------------------------
(* Location resolution and configuration validation (lines 482-532).       *)
(* Coordinates are in ten-thousandths of a degree.                         *)

Digits == {"0", "1", "2", "3", "4", "5", "6", "7", "8", "9"}

DigitValue(c) == CHOOSE n \in 0..9 : Digit(n) = c

RECURSIVE DigitsValue(_)
DigitsValue(s) ==
    IF s = <<>> THEN 0 ELSE DigitsValue(SubSeq(s, 1, Len(s) - 1)) * 10 + DigitValue(s[Len(s)])

AllDigits(s) == \A i \in 1..Len(s) : s[i] \in Digits

\* The first four decimals of a fraction, as an integer.
Fraction4(s) ==
    DigitsValue([i \in 1..4 |-> IF i <= Len(s) THEN s[i] ELSE "0"])

\* float(s) for the decimal notations of the alphabet: surrounding whitespace is
\* ignored, then an optional sign, digits and at most one point with at least
\* one digit around it.  None stands for ValueError.
ParseFloat(s) ==
    LET t == Strip(s)
        signed == t # <<>> /\ t[1] \in {"-", "+"}
        u == IF signed THEN Tail(t) ELSE t
        dots == {i \in 1..Len(u) : u[i] = "."}
        k == IF dots = {} THEN Len(u) + 1 ELSE CHOOSE i \in dots : TRUE
        ip == SubSeq(u, 1, k - 1)
        fp == SubSeq(u, k + 1, Len(u))
        ok == /\ Cardinality(dots) <= 1
              /\ AllDigits(ip) /\ AllDigits(fp)
              /\ Len(ip) + Len(fp) > 0
        magnitude == DigitsValue(ip) * 10000 + Fraction4(fp)
    IN  IF ~ok THEN None
        ELSE Some(IF signed /\ t[1] = "-" THEN -magnitude ELSE magnitude)

\* lines 82-89: the keys of LOCATIONS.
LocationKeys == { <<"halstead">>, <<"braintree">>, <<"london">>, <<"birmingham">>,
                  <<"manchester">>, <<"liverpool">> }

\* lines 82-89
LOCATIONS(key) ==
    CASE key = <<"halstead">> -> [lat |-> 519451, lon |-> 6411, name |-> <<"Halstead, Essex">>]
      [] key = <<"braintree">> -> [lat |-> 518780, lon |-> 5500, name |-> <<"Braintree, Essex">>]
      [] key = <<"london">> -> [lat |-> 515074, lon |-> -1278, name |-> <<"London">>]
      [] key = <<"birmingham">> -> [lat |-> 524862, lon |-> -18904, name |-> <<"Birmingham">>]
      [] key = <<"manchester">> -> [lat |-> 534808, lon |-> -22426, name |-> <<"Manchester">>]
      [] key = <<"liverpool">> -> [lat |-> 534084, lon |-> -29916, name |-> <<"Liverpool">>]

\* line 47
OPENWEATHERMAP_API_KEY_DEFAULT == <<"YOUR_OPENWEATHERMAP_API_KEY">>

\* line 486: all three override variables are set (and not empty).
full_override ==
    Truthy(CUSTOM_LOCATION_NAME) /\ Truthy(CUSTOM_LOCATION_LATITUDE)
    /\ Truthy(CUSTOM_LOCATION_LONGITUDE)

\* The test of line 498 looking at the name only.
any_override_name_only == Truthy(CUSTOM_LOCATION_NAME)

\* line 498: at least one override variable is set.
any_override ==
    Truthy(CUSTOM_LOCATION_NAME) \/ Truthy(CUSTOM_LOCATION_LATITUDE)
    \/ Truthy(CUSTOM_LOCATION_LONGITUDE)

\* line 502
selected_location_key == IF argv # None THEN StrLower(argv[1]) ELSE <<"halstead">>

\* line 511: os.getenv('OPENWEATHERMAP_API_KEY', OPENWEATHERMAP_API_KEY_DEFAULT)
owm_api_key == IF env_api_key # None THEN env_api_key[1] ELSE OPENWEATHERMAP_API_KEY_DEFAULT

\* The test of line 513 without `or not owm_api_key`.
api_key_missing_default_only == owm_api_key = OPENWEATHERMAP_API_KEY_DEFAULT

\* line 513
api_key_missing == owm_api_key = OPENWEATHERMAP_API_KEY_DEFAULT \/ owm_api_key = <<>>

\* sys.exit(1) after an error message, or an uncaught exception: the traceback
\* goes to the error channel and the status is 1.
Exit(err_lines) ==
    /\ pc' = "exit"
    /\ stderr' = stderr \o err_lines
    /\ exit_status' = Some(1)

\* lines 483-507: the location is resolved.
ResolveLocation ==
    /\ pc = "resolve_location"
    /\ IF full_override
       THEN LET lat == ParseFloat(CUSTOM_LOCATION_LATITUDE[1])
                lon == ParseFloat(CUSTOM_LOCATION_LONGITUDE[1])
            IN  IF lat # None /\ lon # None
                THEN /\ selected_location' =
                            [name |-> CUSTOM_LOCATION_NAME[1], lat |-> lat[1], lon |-> lon[1]]
                     /\ stdout' = stdout \o DebugLine("main")
                     /\ pc' = "check_api_key"
                     /\ UNCHANGED <<stderr, exit_status>>
                ELSE /\ Exit(<<Line("Error", "main", <<>>)>>)
                     /\ UNCHANGED <<selected_location, stdout>>
       ELSE LET warn == IF any_override THEN <<Line("Warning", "main", <<>>)>> ELSE <<>>
            IN  IF selected_location_key \notin LocationKeys
                THEN /\ Exit(warn \o <<Line("Error", "main", <<>>)>>)
                     /\ UNCHANGED <<selected_location, stdout>>
                ELSE /\ selected_location' = LOCATIONS(selected_location_key)
                     /\ stderr' = stderr \o warn
                     /\ pc' = "check_api_key"
                     /\ UNCHANGED <<stdout, exit_status>>
    /\ UNCHANGED <<config_vars, all_news_promises, all_news_results, unique_news,
                   final_news_items, weather_data, random_fact, random_joke,
                   onthisday_event, requests, answers, call>>

\* lines 517-532: the configuration dump, 13 lines on the standard output.
debug_dump == IF DEBUG THEN [i \in 1..13 |-> Line("DEBUG", "main", <<>>)] ELSE <<>>

\* lines 510-532: the API key is validated, then the configuration is dumped.
CheckApiKey ==
    /\ pc = "check_api_key"
    /\ IF api_key_missing
       THEN /\ Exit(<<Line("Error", "main", <<>>)>>)
            /\ UNCHANGED stdout
       ELSE /\ stdout' = stdout \o debug_dump
            /\ pc' = "fetch_news"
            /\ UNCHANGED <<stderr, exit_status>>
    /\ UNCHANGED <<config_vars, selected_location, all_news_promises, all_news_results,
                   unique_news, final_news_items, weather_data, random_fact, random_joke,
                   onthisday_event, requests, answers, call>>

---------------------------------------------------------------------------
(* The fetch sequence of __main__ (lines 535-570).  What the outside world *)
(* answers is drawn from the set the action is given.                      *)

\* How many of the configured feeds the model runs.
NumFeeds == 2

\* An uncaught exception ends the process: traceback on the error channel.
Traceback == <<Line("Traceback", "main", <<>>)>>

\* The item elements of a feed document, each of which may lead to one article
\* request.
item_elements(resp) ==
    IF resp.root.channel # None THEN resp.root.channel[1]
    ELSE IF resp.root.feed # None THEN resp.root.feed[1]
    ELSE <<>>

\* line 536: fetch_news for the next feed of RSS_FEEDS, its result kept in
\* all_news_promises.
FetchNews(responses, preview_responses) ==
    /\ pc = "fetch_news"
    /\ Len(all_news_promises) < NumFeeds
    /\ \E resp \in responses :
       \E presps \in [1..Len(item_elements(resp)) -> preview_responses] :
         LET r == fetch_news(RSS_FEEDS[Len(all_news_promises) + 1], resp, presps)
         IN  /\ stdout' = stdout \o r.out
             /\ requests' = requests \o r.reqs
             /\ answers' = Append(answers, resp)
             /\ IF r.raised = None
                THEN /\ all_news_promises' = Append(all_news_promises, r.value)
                     /\ stderr' = stderr \o r.err
                     /\ pc' = IF Len(all_news_promises) + 1 = NumFeeds
                              THEN "aggregate" ELSE "fetch_news"
                     /\ UNCHANGED exit_status
                ELSE /\ Exit(r.err \o Traceback)
                     /\ UNCHANGED all_news_promises
    /\ UNCHANGED <<config_vars, selected_location, all_news_results, unique_news,
                   final_news_items, weather_data, random_fact, random_joke,
                   onthisday_event, call>>

\* lines 539-541: all_news_results.extend(promise) for each promise in order.
RECURSIVE extend_all(_)
extend_all(promises) ==
    IF promises = <<>> THEN <<>> ELSE Head(promises) \o extend_all(Tail(promises))

\* lines 539-547: the results are concatenated, deduplicated and truncated.
Aggregate ==
    /\ pc = "aggregate"
    /\ all_news_results' = extend_all(all_news_promises)
    /\ unique_news' = deduplicate_news(extend_all(all_news_promises))
    /\ final_news_items' =
           Prefix(deduplicate_news(extend_all(all_news_promises)), NUM_NEWS_ITEMS)
    /\ pc' = "fetch_weather"
    /\ UNCHANGED <<config_vars, selected_location, all_news_promises, weather_data,
                   random_fact, random_joke, onthisday_event, io_vars, call>>

\* line 252: the URL of the weather request.
weather_api_url == <<"https://api.openweathermap.org/data/3.0/onecall">>

\* line 550
FetchWeather(responses) ==
    /\ pc = "fetch_weather"
    /\ \E resp \in responses :
         LET r == fetch_weather(resp)
         IN  /\ stdout' = stdout \o r.out
             /\ requests' = Append(requests, Request("fetch_weather", weather_api_url))
             /\ IF r.raised = None
                THEN /\ weather_data' = r.value
                     /\ stderr' = stderr \o r.err
                     /\ pc' = "fetch_fact"
                     /\ UNCHANGED exit_status
                ELSE /\ Exit(r.err \o Traceback)
                     /\ UNCHANGED weather_data
    /\ UNCHANGED <<config_vars, selected_location, all_news_promises, all_news_results,
                   unique_news, final_news_items, random_fact, random_joke,
                   onthisday_event, answers, call>>

\* lines 553-565: one conditional novelty fetch; the value stays None when the
\* feature is disabled and no request is made.
novelty_fetch(enabled, src, url, responses, value, next_pc) ==
    /\ IF enabled
       THEN \E resp \in responses :
              LET r == fetch_novelty(src, resp)
              IN  /\ value' = r.value
                  /\ stdout' = stdout \o r.out
                  /\ stderr' = stderr \o r.err
                  /\ requests' = Append(requests, Request(src, <<url>>))
       ELSE /\ value' = None
            /\ UNCHANGED <<stdout, stderr, requests>>
    /\ pc' = next_pc
    /\ UNCHANGED <<config_vars, selected_location, all_news_promises, all_news_results,
                   unique_news, final_news_items, weather_data, exit_status, answers, call>>

\* The fact fetched whatever ENABLE_RANDOM_FACT says.
FetchFact_whatever_the_flag(responses) ==
    /\ pc = "fetch_fact"
    /\ novelty_fetch(TRUE, "fetch_random_fact",
                     "https://uselessfacts.jsph.pl/api/v2/facts/random",
                     responses, random_fact, "fetch_joke")
    /\ UNCHANGED <<random_joke, onthisday_event>>

\* lines 553-555
FetchFact(responses) ==
    /\ pc = "fetch_fact"
    /\ novelty_fetch(ENABLE_RANDOM_FACT, "fetch_random_fact",
                     "https://uselessfacts.jsph.pl/api/v2/facts/random",
                     responses, random_fact, "fetch_joke")
    /\ UNCHANGED <<random_joke, onthisday_event>>

\* lines 558-560
FetchJoke(responses) ==
    /\ pc = "fetch_joke"
    /\ novelty_fetch(ENABLE_RANDOM_JOKE, "fetch_random_joke",
                     "https://v2.jokeapi.dev/joke/Any", responses, random_joke,
                     "fetch_onthisday")
    /\ UNCHANGED <<random_fact, onthisday_event>>

\* lines 563-565
FetchOnThisDay(responses) ==
    /\ pc = "fetch_onthisday"
    /\ novelty_fetch(ENABLE_ONTHISDAY, "fetch_on_this_day_event",
                     "https://byabbe.se/on-this-day", responses, onthisday_event,
                     "format")
    /\ UNCHANGED <<random_fact, random_joke>>

\* lines 569-570: the briefing is formatted and printed; the process ends.
FormatAndPrint(clocks) ==
    /\ pc = "format"
    /\ \E clock \in clocks :
         stdout' = Append(stdout,
                          Line("document", "main",
                               format_briefing(weather_data, final_news_items, random_fact,
                                               random_joke, onthisday_event,
                                               selected_location.name,
                                               clock.today, clock.hour)))
    /\ pc' = "exit"
    /\ exit_status' = Some(0)
    /\ UNCHANGED <<config_vars, selected_location, all_news_promises, all_news_results,
                   unique_news, final_news_items, weather_data, random_fact, random_joke,
                   onthisday_event, stderr, requests, answers, call>>

---------------------------------------------------------------------------
(* What the outside world may answer.                                      *)

ItemElement(title, description, link) ==
    [title |-> title, description |-> description, link |-> link]

\* a title, a description and a link with surrounding whitespace
E1 == ItemElement(Some(<<"A">>), Some(<<"x">>), Some(<<" ", "u", " ">>))

\* the same story as E1 up to case and whitespace, without a link element
E2 == ItemElement(Some(<<"a", " ">>), Some(<<"X">>), None)

\* no title element, an empty description, a link of whitespace only
E3 == ItemElement(None, Some(<<>>), Some(<<" ">>))

\* another story whose link text is "#"
E4 == ItemElement(Some(<<"b">>), Some(<<"x">>), Some(<<"#">>))

FeedResponse(net, xml, channel, feed) ==
    [net |-> net, xml |-> xml, root |-> [channel |-> channel, feed |-> feed]]

\* a network error or error status, malformed XML, a document without channel
\* or feed, and documents without items
FailingFeedResponses ==
    { FeedResponse("RequestException", "ok", None, None),
      FeedResponse("ok", "ParseError", None, None),
      FeedResponse("ok", "ok", None, None),
      FeedResponse("ok", "ok", Some(<<>>), None),
      FeedResponse("ok", "ok", None, Some(<<>>)) }

FeedResponses ==
    FailingFeedResponses
    \cup { FeedResponse("ok", "ok", Some(<<E1>>), None),
           FeedResponse("ok", "ok", Some(<<E2, E3>>), None),
           FeedResponse("ok", "ok", Some(<<E4, E1>>), None),
           FeedResponse("ok", "ok", None, Some(<<E1>>)) }

SmallFeedResponses ==
    { FeedResponse("RequestException", "ok", None, None),
      FeedResponse("ok", "ok", Some(<<E1, E2>>), None) }

\* an element of a parsed page
Element(name, class, depth) ==
    [name |-> name, class |-> class, depth |-> depth, text |-> <<>>, length |-> 0]

\* a paragraph of a parsed page, with its text of `length` characters
Paragraph(depth, text, length) ==
    [name |-> "p", class |-> "", depth |-> depth, text |-> text, length |-> length]

PreviewResponse(net, parse, doc) == [net |-> net, parse |-> parse, doc |-> doc]

PreviewResponses ==
    { PreviewResponse("RequestException", "ok", <<>>),
      PreviewResponse("ok", "Exception", <<>>),
      PreviewResponse("ok", "ok", <<>>),
      PreviewResponse("ok", "ok", <<Paragraph(0, <<"p">>, 101)>>) }

SmallPreviewResponses ==
    { PreviewResponse("RequestException", "ok", <<>>),
      PreviewResponse("ok", "ok", <<Paragraph(0, <<"p">>, 101)>>) }

WeatherEntry(weather, temp, feels_like) ==
    [weather |-> weather, temp |-> temp, feels_like |-> feels_like]

WeatherLists(description) ==
    { None, Some(<<>>), Some(<<[description |-> None]>>),
      Some(<<[description |-> Some(description)]>>) }

Temps(max, min) ==
    { None } \cup { Some([max |-> mx, min |-> mn]) :
                      mx \in {None, Some(max)}, mn \in {None, Some(min)} }

FeelsLikes(day) == { None, Some([day |-> None]), Some([day |-> Some(day)]) }

\* every shape of today's entry: each expected key present or missing
TodayEntries ==
    { WeatherEntry(w, t, f) :
        w \in WeatherLists(<<"l", "R">>), t \in Temps(205, 95), f \in FeelsLikes(185) }

\* tomorrow's entry, complete, with other values than any of today's
Tomorrow ==
    WeatherEntry(Some(<<[description |-> Some(<<"x">>)]>>),
                 Some([max |-> Some(300), min |-> Some(200)]), Some([day |-> Some(250)]))

WeatherResponse(net, json, daily) == [net |-> net, json |-> json, data |-> [daily |-> daily]]

WeatherResponses ==
    { WeatherResponse("RequestException", "ok", None),
      WeatherResponse("ok", "JSONDecodeError", None),
      WeatherResponse("ok", "ok", None),
      WeatherResponse("ok", "ok", Some(<<>>)) }
    \cup { WeatherResponse("ok", "ok", Some(<<e>>)) : e \in TodayEntries }
    \cup { WeatherResponse("ok", "ok", Some(<<e, Tomorrow>>)) : e \in TodayEntries }

CompleteToday ==
    WeatherEntry(Some(<<[description |-> Some(<<"l", "R">>)]>>),
                 Some([max |-> Some(205), min |-> Some(95)]), Some([day |-> Some(185)]))

SmallWeatherResponses ==
    { WeatherResponse("RequestException", "ok", None),
      WeatherResponse("ok", "ok", Some(<<CompleteToday, Tomorrow>>)),
      WeatherResponse("ok", "ok",
                      Some(<<WeatherEntry(Some(<<>>), None, None)>>)) }

NoveltyResponse(net, text) == [net |-> net, text |-> text]

NoveltyResponses ==
    { NoveltyResponse("RequestException", None),
      NoveltyResponse("ok", None),
      NoveltyResponse("ok", Some(<<>>)),
      NoveltyResponse("ok", Some(<<"a", "b">>)) }

SmallNoveltyResponses ==
    { NoveltyResponse("RequestException", None),
      NoveltyResponse("ok", Some(<<"a", "b">>)) }

Date(year, month, day) == [year |-> year, month |-> month, day |-> day]

Clock(today, hour) == [today |-> today, hour |-> hour]

\* two readings of the wall clock on different days and parts of the day
RunClocks == { Clock(Date(2026, 11, 5), 9), Clock(Date(2027, 1, 31), 14) }

---------------------------------------------------------------------------
(* The state after the module is imported, and the specifications.         *)

\* lines 483, 539, 553-563: nothing resolved, fetched or printed yet.
InitRun ==
    /\ pc = "resolve_location"
    /\ selected_location = None
    /\ all_news_promises = <<>>
    /\ all_news_results = <<>>
    /\ unique_news = <<>>
    /\ final_news_items = <<>>
    /\ weather_data = None
    /\ random_fact = None
    /\ random_joke = None
    /\ onthisday_event = None
    /\ stdout = <<>>
    /\ stderr = <<>>
    /\ exit_status = None
    /\ requests = <<>>
    /\ answers = <<>>

NoCall == [fn |-> "none"]

\* lines 17-60: the defaults of the flags when the environment sets none.
DefaultFlags ==
    /\ NUM_NEWS_ITEMS = 10
    /\ SHOW_FULL_STORY_PREVIEW = FALSE
    /\ SHOW_FULL_STORY_PARAGRAPHS = 2
    /\ SHOW_CONTINUE_LINK = TRUE
    /\ CONVERSATIONAL_MODE = FALSE
    /\ ENABLE_RANDOM_FACT = FALSE
    /\ ENABLE_RANDOM_JOKE = FALSE
    /\ ENABLE_ONTHISDAY = FALSE

\* lines 65-67, 502, 511: the location override, the command line and the key.
Environment(name, lat, lon, arg, key) ==
    /\ CUSTOM_LOCATION_NAME = name
    /\ CUSTOM_LOCATION_LATITUDE = lat
    /\ CUSTOM_LOCATION_LONGITUDE = lon
    /\ argv = arg
    /\ env_api_key = key

NoOverride(arg, key) == Environment(None, None, None, arg, key)

\* Runs with every combination of the flags, under a few environments: no
\* override, a full override, a partial one, a missing key, an unknown place.
Init ==
    /\ InitRun
    /\ call = NoCall
    /\ DEBUG \in BOOLEAN
    /\ NUM_NEWS_ITEMS = 10
    /\ SHOW_FULL_STORY_PREVIEW \in BOOLEAN
    /\ SHOW_FULL_STORY_PARAGRAPHS = 2
    /\ SHOW_CONTINUE_LINK \in BOOLEAN
    /\ CONVERSATIONAL_MODE \in BOOLEAN
    /\ ENABLE_RANDOM_FACT \in BOOLEAN
    /\ ENABLE_RANDOM_JOKE \in BOOLEAN
    /\ ENABLE_ONTHISDAY \in BOOLEAN
    /\ \/ NoOverride(None, Some(<<"k">>))
       \/ Environment(Some(<<"H">>), Some(<<"5", "1", ".", "5">>), Some(<<"-", "2">>),
                      None, Some(<<"k">>))
       \/ Environment(Some(<<"H">>), None, None, Some(<<"London">>), Some(<<"k">>))
       \/ NoOverride(None, None)
       \/ NoOverride(Some(<<"paris">>), Some(<<"k">>))

Next ==
    \/ ResolveLocation
    \/ CheckApiKey
    \/ FetchNews(SmallFeedResponses, SmallPreviewResponses)
    \/ Aggregate
    \/ FetchWeather(SmallWeatherResponses)
    \/ FetchFact(SmallNoveltyResponses)
    \/ FetchJoke(SmallNoveltyResponses)
    \/ FetchOnThisDay(SmallNoveltyResponses)
    \/ FormatAndPrint(RunClocks)

Spec == Init /\ [][Next]_vars

\* Runs under every combination of the location override, the command line and
\* the API key, with the flags at their defaults and DEBUG either way.
InitConfig ==
    /\ InitRun
    /\ call = NoCall
    /\ DEBUG \in BOOLEAN
    /\ DefaultFlags
    /\ CUSTOM_LOCATION_NAME \in {None, Some(<<"H">>)}
    /\ CUSTOM_LOCATION_LATITUDE \in {None, Some(<<"x">>), Some(<<"5", "1", ".", "5">>)}
    /\ CUSTOM_LOCATION_LONGITUDE \in {None, Some(<<>>), Some(<<".">>), Some(<<"-", "2">>)}
    /\ argv \in {None, Some(<<"London">>), Some(<<"paris">>)}
    /\ env_api_key \in {None, Some(<<>>), Some(OPENWEATHERMAP_API_KEY_DEFAULT), Some(<<"k">>)}

SpecConfig == InitConfig /\ [][Next]_vars

\* Runs with a valid configuration where the feeds and the article pages answer
\* in every way, with and without previews and debugging.
InitFeeds ==
    /\ InitRun
    /\ call = NoCall
    /\ DEBUG \in BOOLEAN
    /\ NUM_NEWS_ITEMS \in {1, 10}
    /\ SHOW_FULL_STORY_PREVIEW \in BOOLEAN
    /\ SHOW_FULL_STORY_PARAGRAPHS = 2
    /\ SHOW_CONTINUE_LINK = TRUE
    /\ CONVERSATIONAL_MODE = FALSE
    /\ ENABLE_RANDOM_FACT = FALSE
    /\ ENABLE_RANDOM_JOKE = FALSE
    /\ ENABLE_ONTHISDAY = TRUE
    /\ NoOverride(None, Some(<<"k">>))

NextFeeds ==
    \/ ResolveLocation
    \/ CheckApiKey
    \/ FetchNews(FeedResponses, PreviewResponses)
    \/ Aggregate
    \/ FetchWeather(SmallWeatherResponses)
    \/ FetchFact(SmallNoveltyResponses)
    \/ FetchJoke(SmallNoveltyResponses)
    \/ FetchOnThisDay(SmallNoveltyResponses)
    \/ FormatAndPrint(RunClocks)

SpecFeeds == InitFeeds /\ [][NextFeeds]_vars

---------------------------------------------------------------------------
(* deduplicate_news called on every list of a bounded set of items.        *)

\* The longest list deduplicate_news is called with.
MaxNews == 3

NewsItem(title, description, link, source, preview) ==
    [title |-> title, description |-> description, link |-> link, source |-> source,
     full_story_preview |-> preview]

\* items whose titles and descriptions differ in case and whitespace only, or
\* really, from either of two sources
DedupItems ==
    { NewsItem(t, d, <<"u">>, s, <<>>) :
        t \in { <<"a">>, <<" ", "A">>, <<"b">> },
        d \in { <<"x">>, <<"X", " ">> },
        s \in { "BBC News", "Sky News" } }

Lists(S, n) == UNION { [1..k -> S] : k \in 0..n }

InitIdleRun ==
    /\ InitRun
    /\ NoOverride(None, Some(<<"k">>))

InitDedup ==
    /\ InitIdleRun
    /\ DEBUG = FALSE
    /\ DefaultFlags
    /\ \E all_news \in Lists(DedupItems, MaxNews) :
         call = [fn |-> "deduplicate_news", all_news |-> all_news, i |-> 0,
                 st |-> [unique_news |-> <<>>, seen_identifiers |-> {}],
                 returned |-> FALSE, result |-> <<>>]

\* lines 239-244: one iteration of the loop.
DedupIterate ==
    /\ call.fn = "deduplicate_news"
    /\ ~call.returned
    /\ call.i < Len(call.all_news)
    /\ call' = [call EXCEPT !.i = @ + 1,
                            !.st = dedup_step(@, call.all_news[call.i + 1])]
    /\ UNCHANGED <<config_vars, run_vars, io_vars>>

\* line 245
DedupReturn ==
    /\ call.fn = "deduplicate_news"
    /\ ~call.returned
    /\ call.i = Len(call.all_news)
    /\ call' = [call EXCEPT !.returned = TRUE, !.result = call.st.unique_news]
    /\ UNCHANGED <<config_vars, run_vars, io_vars>>

NextDedup == DedupIterate \/ DedupReturn

SpecDedup == InitDedup /\ [][NextDedup]_vars

---------------------------------------------------------------------------
(* fetch_weather called on every provider response.                        *)

InitWeather ==
    /\ InitIdleRun
    /\ DEBUG \in BOOLEAN
    /\ DefaultFlags
    /\ \E resp \in WeatherResponses :
         call = [fn |-> "fetch_weather", resp |-> resp, returned |-> FALSE,
                 raised |-> None, result |-> None]

\* lines 247-279: the call returns or raises.
WeatherCall ==
    /\ call.fn = "fetch_weather"
    /\ ~call.returned
    /\ LET r == fetch_weather(call.resp)
       IN  /\ call' = [call EXCEPT !.returned = TRUE, !.raised = r.raised,
                                   !.result = r.value]
           /\ stdout' = stdout \o r.out
           /\ stderr' = stderr \o r.err
           /\ requests' = Append(requests, Request("fetch_weather", weather_api_url))
    /\ UNCHANGED <<config_vars, run_vars, exit_status, answers>>

NextWeather == WeatherCall

SpecWeather == InitWeather /\ [][NextWeather]_vars

---------------------------------------------------------------------------
(* format_briefing called twice on the same arguments, at two readings of  *)
(* the wall clock.                                                         *)

\* The longest news list format_briefing is called with.
MaxFormatNews == 2

\* the news items fetch_news can produce under the configured preview flag: a
\* preview is there only if previews are enabled and the item has a link
FormatItems ==
    { NewsItem(<<"A">>, <<"x">>, <<"#">>, "BBC News", <<>>),
      NewsItem(<<"b">>, <<"x">>, <<"u">>, "Sky News",
               IF SHOW_FULL_STORY_PREVIEW THEN <<"p">> ELSE <<>>) }

\* what a novelty fetcher can leave in its variable
NoveltyValues(enabled) == IF enabled THEN {None, Some(<<"a", "b">>)} ELSE {None}

\* the same date at two hours of the morning, in the afternoon, and another date
FormatClocks ==
    { Clock(Date(2026, 11, 5), 9), Clock(Date(2026, 11, 5), 10),
      Clock(Date(2026, 11, 5), 14), Clock(Date(2026, 11, 6), 9) }

InitFormat ==
    /\ InitIdleRun
    /\ DEBUG = FALSE
    /\ NUM_NEWS_ITEMS = 10
    /\ SHOW_FULL_STORY_PREVIEW \in BOOLEAN
    /\ SHOW_FULL_STORY_PARAGRAPHS = 2
    /\ SHOW_CONTINUE_LINK \in BOOLEAN
    /\ CONVERSATIONAL_MODE \in BOOLEAN
    /\ ENABLE_RANDOM_FACT \in BOOLEAN
    /\ ENABLE_RANDOM_JOKE \in BOOLEAN
    /\ ENABLE_ONTHISDAY \in BOOLEAN
    /\ \E wd \in {None, Some([description |-> <<"l", "R">>, max_temp |-> 205,
                              min_temp |-> 95, feels_like |-> 185])},
          news_items \in Lists(FormatItems, MaxFormatNews),
          fact \in NoveltyValues(ENABLE_RANDOM_FACT),
          joke \in NoveltyValues(ENABLE_RANDOM_JOKE),
          event \in NoveltyValues(ENABLE_ONTHISDAY) :
         call = [fn |-> "format_briefing",
                 weather_data |-> wd, news_items |-> news_items, random_fact |-> fact,
                 random_joke |-> joke, onthisday_event |-> event,
                 location_name |-> <<"London">>,
                 clocks |-> <<>>, results |-> <<>>]

\* The wall clock does not run backwards between two invocations.
Earlier(c1, c2) ==
    LET stamp(c) == ((c.today.year * 12 + c.today.month) * 31 + c.today.day) * 24 + c.hour
    IN  stamp(c1) < stamp(c2)

\* lines 380-479: one invocation, at some reading of the wall clock.
FormatCall ==
    /\ call.fn = "format_briefing"
    /\ Len(call.results) < 2
    /\ \E clock \in FormatClocks :
         /\ call.clocks # <<>> => ~Earlier(clock, call.clocks[1])
         /\ call' = [call EXCEPT
                    !.clocks = Append(@, clock),
                    !.results = Append(@, format_briefing(
                        call.weather_data, call.news_items, call.random_fact,
                        call.random_joke, call.onthisday_event, call.location_name,
                        clock.today, clock.hour))]
    /\ UNCHANGED <<config_vars, run_vars, io_vars>>

NextFormat == FormatCall

SpecFormat == InitFormat /\ [][NextFormat]_vars

---------------------------------------------------------------------------
(* Claims about deduplicate_news, under SpecDedup.                         *)

\* The key of the claim: title and description, each trimmed and lowercased.
ClaimKey(item) == <<StrLower(Strip(item.title)), StrLower(Strip(item.description))>>

\* The positions of a list whose key occurs at no earlier position.
FirstPositions(list) ==
    { i \in 1..Len(list) : \A j \in 1..(i - 1) : ClaimKey(list[j]) # ClaimKey(list[i]) }

\* The k-th smallest element of a set of numbers.
KthSmallest(S, k) == CHOOSE x \in S : Cardinality({ y \in S : y < x }) = k - 1

\* The subsequence of a list at a set of positions, in list order.
SubsequenceAt(list, S) == [k \in 1..Cardinality(S) |-> list[KthSmallest(S, k)]]

DedupReturned == call.fn = "deduplicate_news" /\ call.returned

\* C1: for every input list, deduplicate_news returns the subsequence of the
\* input made of the first item of each key (title and description, lowercased
\* and trimmed), in input order: no two items of the output have equal keys and
\* every key of the input is a key of the output.
C1_DedupKeepsFirstOfEachKey ==
    DedupReturned =>
        /\ call.result = SubsequenceAt(call.all_news, FirstPositions(call.all_news))
        /\ \A i, j \in 1..Len(call.result) :
             i # j => ClaimKey(call.result[i]) # ClaimKey(call.result[j])
        /\ \A i \in 1..Len(call.all_news) :
             \E j \in 1..Len(call.result) :
               ClaimKey(call.result[j]) = ClaimKey(call.all_news[i])

\* A call returned a list of two items from three, having dropped an item whose
\* title differs from the kept one in case and whitespace only.
C1_Witness ==
    /\ DedupReturned
    /\ Len(call.all_news) = 3
    /\ Len(call.result) = 2
    /\ \E i \in 1..3 :
         /\ i \notin FirstPositions(call.all_news)
         /\ \E j \in 1..(i - 1) :
              /\ ClaimKey(call.all_news[j]) = ClaimKey(call.all_news[i])
              /\ call.all_news[j].title # call.all_news[i].title
              /\ call.all_news[j] = call.result[j]

---------------------------------------------------------------------------
(* Claims about the configuration validation, under SpecConfig.            *)

\* How many of the three override variables are set (to a non-empty value).
OverrideCount ==
    Cardinality({ i \in 1..3 :
        Truthy(<<CUSTOM_LOCATION_NAME, CUSTOM_LOCATION_LATITUDE,
                 CUSTOM_LOCATION_LONGITUDE>>[i]) })

PartialOverride == OverrideCount \in {1, 2}

\* The command-line location, lowercased, 'halstead' when there is none.
CommandLineLocation == IF argv = None THEN <<"halstead">> ELSE StrLower(argv[1])

NoDocument == \A i \in 1..Len(stdout) : stdout[i].level # "document"

ExitedWithError == pc = "exit" /\ exit_status = Some(1)

\* C2 as stated: once the location has been resolved under a partial override,
\* a warning has been emitted and the process has terminated with a non-zero
\* status without a briefing document, whatever the command-line location.
C2_PartialOverrideTerminates ==
    (PartialOverride /\ pc # "resolve_location") =>
        /\ stderr # <<>> /\ stderr[1].level = "Warning"
        /\ ExitedWithError
        /\ NoDocument

\* C2 as amended: under a partial override a warning is emitted and the
\* command-line location is used instead: the process terminates at the
\* location resolution (non-zero status, no request, no document) exactly when
\* that location is not a known one; otherwise the location is the table's entry
\* and the run goes on to the API key validation, where it ends without any
\* request only if the key is missing.
C2_PartialOverrideFallsBack ==
    (PartialOverride /\ pc # "resolve_location") =>
        /\ stderr # <<>> /\ stderr[1] = Line("Warning", "main", <<>>)
        /\ IF CommandLineLocation \notin LocationKeys
           THEN /\ ExitedWithError
                /\ stderr = <<Line("Warning", "main", <<>>), Line("Error", "main", <<>>)>>
                /\ requests = <<>>
                /\ NoDocument
                /\ selected_location = None
           ELSE /\ selected_location = LOCATIONS(CommandLineLocation)
                /\ (pc = "exit" /\ requests = <<>>) =>
                       env_api_key \in {None, Some(<<>>), Some(OPENWEATHERMAP_API_KEY_DEFAULT)}

\* A run under a partial override (latitude only) that ended with status 0 and
\* a briefing document for the command-line location.
C2_Witness ==
    /\ PartialOverride
    /\ ~Truthy(CUSTOM_LOCATION_NAME)
    /\ argv = Some(<<"London">>)
    /\ pc = "exit"
    /\ exit_status = Some(0)
    /\ ~NoDocument
    /\ selected_location.name = <<"London">>

\* The fatal configurations of C3.
KeyAbsentEmptyOrDefault ==
    env_api_key \in {None, Some(<<>>), Some(OPENWEATHERMAP_API_KEY_DEFAULT)}

UnknownLocation == OverrideCount < 3 /\ CommandLineLocation \notin LocationKeys

NonNumericOverride ==
    /\ OverrideCount = 3
    /\ \/ ParseFloat(CUSTOM_LOCATION_LATITUDE[1]) = None
       \/ ParseFloat(CUSTOM_LOCATION_LONGITUDE[1]) = None

FatalConfiguration == KeyAbsentEmptyOrDefault \/ UnknownLocation \/ NonNumericOverride

\* C3: in every run whose API key is absent, empty or the placeholder, or whose
\* location is unknown while the override is not full, or whose full override
\* has a non-numeric coordinate, no feed, preview, weather or novelty request is
\* ever made and no document is written; the run never gets past the two
\* validation steps, and when it has ended its status is 1 and the last line of
\* the error channel is an error message.
C3_FatalConfigurationAborts ==
    FatalConfiguration =>
        /\ requests = <<>>
        /\ answers = <<>>
        /\ NoDocument
        /\ pc \in {"resolve_location", "check_api_key", "exit"}
        /\ pc = "exit" =>
              /\ exit_status = Some(1)
              /\ stderr # <<>> /\ stderr[Len(stderr)] = Line("Error", "main", <<>>)

\* A run with a valid API key and a full override whose latitude is a number
\* and whose longitude is not has ended with status 1.
C3_Witness ==
    /\ ExitedWithError
    /\ NonNumericOverride
    /\ ParseFloat(CUSTOM_LOCATION_LATITUDE[1]) # None
    /\ env_api_key = Some(<<"k">>)

---------------------------------------------------------------------------
(* Claims about the two output channels, under Spec.                       *)

\* C4 as stated: whatever the configuration (DEBUG included) and the outcome of
\* the fetches, every line on the standard output is a line of the briefing
\* document.
C4_StdoutCarriesOnlyTheDocument ==
    \A i \in 1..Len(stdout) : stdout[i].level = "document"

\* C4 as amended: with DEBUG disabled the standard output carries the briefing
\* document only; warnings, errors and tracebacks always go to the error
\* channel and never to the standard output; with DEBUG enabled the debug lines
\* are written to the standard output, all of them before the document, which
\* is the last thing written there.
C4_StdoutCarriesOnlyTheDocumentUnlessDebug ==
    /\ ~DEBUG => \A i \in 1..Len(stdout) : stdout[i].level = "document"
    /\ \A i \in 1..Len(stdout) :
         /\ stdout[i].level \in {"DEBUG", "document"}
         /\ stdout[i].level = "document" => i = Len(stdout) /\ pc = "exit"
    /\ \A i \in 1..Len(stderr) : stderr[i].level \in {"Warning", "Error", "Traceback"}

\* A run with DEBUG disabled, previews and a novelty enabled, in which a fetch
\* failed and was logged, has printed its document and nothing else on the
\* standard output.
C4_Witness ==
    /\ ~DEBUG
    /\ SHOW_FULL_STORY_PREVIEW
    /\ ENABLE_RANDOM_JOKE
    /\ pc = "exit"
    /\ exit_status = Some(0)
    /\ Len(stdout) = 1
    /\ stdout[1].level = "document"
    /\ Len(stderr) >= 2
    /\ Len(requests) > NumFeeds + 2

---------------------------------------------------------------------------
(* Claims about fetch_news in the run, under SpecFeeds.                    *)

\* The concatenation of lists, from the last to the first.
RECURSIVE ConcatAll(_)
ConcatAll(lists) ==
    IF lists = <<>> THEN <<>>
    ELSE ConcatAll(SubSeq(lists, 1, Len(lists) - 1)) \o lists[Len(lists)]

\* A feed answer counts as failed when the request failed, the body is no XML,
\* or the document has no channel or feed, or no items.
FeedFailed(answer) ==
    \/ answer.net # "ok"
    \/ answer.xml # "ok"
    \/ answer.root.channel = None /\ answer.root.feed = None
    \/ answer.root.channel # None /\ answer.root.channel[1] = <<>>
    \/ answer.root.channel = None /\ answer.root.feed[1] = <<>>

\* The item elements a feed that did not fail has answered with.
AnsweredElements(answer) ==
    IF answer.root.channel # None THEN answer.root.channel[1] ELSE answer.root.feed[1]

\* C6: fetch_news never raises (the run never ends inside the feed loop, every
\* feed asked has a result), a failed feed gives the empty list and a feed that
\* did not fail one item per element, in feed order, labelled with its source;
\* and the combined list is the concatenation, in configured source order, of
\* the items of the feeds that did not fail, the failed ones counting for
\* nothing.
C6_FeedFailuresAreIsolated ==
    /\ Len(answers) = Len(all_news_promises)
    /\ pc = "exit" => Len(all_news_promises) = NumFeeds
    /\ \A i \in 1..Len(all_news_promises) :
         IF FeedFailed(answers[i]) THEN all_news_promises[i] = <<>>
         ELSE /\ Len(all_news_promises[i]) = Len(AnsweredElements(answers[i]))
              /\ \A j \in 1..Len(all_news_promises[i]) :
                   /\ all_news_promises[i][j].source = RSS_FEEDS[i].source
                   /\ Truthy(AnsweredElements(answers[i])[j].title) =>
                        all_news_promises[i][j].title =
                            Strip(AnsweredElements(answers[i])[j].title[1])
    /\ pc \notin {"resolve_location", "check_api_key", "fetch_news", "aggregate"} =>
         all_news_results =
             ConcatAll([i \in 1..NumFeeds |->
                          IF FeedFailed(answers[i]) THEN <<>> ELSE all_news_promises[i]])

\* The first feed answered malformed XML, the last one two items, and the
\* combined list holds exactly the two items of the last source.
C6_Witness ==
    /\ pc = "fetch_weather"
    /\ answers[1].xml = "ParseError"
    /\ stderr[1] = Line("Error", "fetch_news", <<>>)
    /\ Len(all_news_promises[NumFeeds]) = 2
    /\ all_news_results = all_news_promises[NumFeeds]
    /\ all_news_results[1].source = RSS_FEEDS[NumFeeds].source

PreviewRequests == SelectSeq(requests, LAMBDA r : r.fn = "get_article_preview")

\* The items fetched so far, over all feeds.
FetchedItems == ConcatAll(all_news_promises)

LinkPresent(item) == item.link # <<"#">> /\ item.link # <<>>

\* C9: with SHOW_FULL_STORY_PREVIEW disabled no article page is ever requested
\* and every item has the empty preview; with it enabled the article pages
\* requested are, in order, the links of the items that have one, and an item
\* without a link has the empty preview.
C9_PreviewFetchedOnlyWhenEnabledAndLinked ==
    /\ ~SHOW_FULL_STORY_PREVIEW =>
         /\ PreviewRequests = <<>>
         /\ \A i \in 1..Len(FetchedItems) : FetchedItems[i].full_story_preview = <<>>
    /\ SHOW_FULL_STORY_PREVIEW =>
         /\ \A i \in 1..Len(PreviewRequests) :
              PreviewRequests[i].url # <<"#">> /\ PreviewRequests[i].url # <<>>
         /\ [i \in 1..Len(PreviewRequests) |-> PreviewRequests[i].url]
              = [i \in 1..Len(SelectSeq(FetchedItems, LinkPresent)) |->
                   SelectSeq(FetchedItems, LinkPresent)[i].link]
         /\ \A i \in 1..Len(FetchedItems) :
              ~LinkPresent(FetchedItems[i]) => FetchedItems[i].full_story_preview = <<>>

\* With previews enabled, a feed gave an item whose link is "#" and an item
\* with a link: one article page was requested and its preview attached.
C9_Witness ==
    /\ SHOW_FULL_STORY_PREVIEW
    /\ Len(PreviewRequests) = 1
    /\ Len(FetchedItems) = 2
    /\ FetchedItems[1].link = <<"#">>
    /\ FetchedItems[1].full_story_preview = <<>>
    /\ FetchedItems[2].link = <<"u">>
    /\ FetchedItems[2].full_story_preview = <<"p">>

---------------------------------------------------------------------------
(* Claims about fetch_weather, under SpecWeather.                          *)

WeatherReturned == call.fn = "fetch_weather" /\ call.returned

\* The provider answered, the body decodes and `daily` has a first entry.
HasToday(resp) ==
    /\ resp.net = "ok" /\ resp.json = "ok"
    /\ resp.data.daily # None /\ resp.data.daily[1] # <<>>

\* The four values of the summary are all in the entry.
CompleteEntry(e) ==
    /\ e.weather # None /\ e.weather[1] # <<>> /\ e.weather[1][1].description # None
    /\ e.temp # None /\ e.temp[1].max # None /\ e.temp[1].min # None
    /\ e.feels_like # None /\ e.feels_like[1].day # None

\* C5: fetch_weather never raises to its caller: for every provider outcome
\* (network or HTTP error, undecodable JSON, no `daily` or an empty one, a first
\* entry missing a value, an empty `weather` list included) it returns None and
\* logs one line on the error channel; it returns a summary only when the four
\* values are present, and then they are those of the first daily entry.
C5_FetchWeatherNeverRaises ==
    WeatherReturned =>
        /\ call.raised = None
        /\ IF HasToday(call.resp) /\ CompleteEntry(call.resp.data.daily[1][1])
           THEN LET e == call.resp.data.daily[1][1]
                IN  /\ call.result =
                           Some([description |-> e.weather[1][1].description[1],
                                 max_temp |-> e.temp[1].max[1],
                                 min_temp |-> e.temp[1].min[1],
                                 feels_like |-> e.feels_like[1].day[1]])
                    /\ stderr = <<>>
           ELSE /\ call.result = None
                /\ Len(stderr) = 1

---------------------------------------------------------------------------
(* Claims about format_briefing, under SpecFormat.                         *)

FormatCalled == call.fn = "format_briefing"

\* The lines of a text: what stands between its newline characters.  CutLines
\* scans from position i, the current line having begun at position start.
RECURSIVE CutLines(_, _, _)
CutLines(text, start, i) ==
    IF i > Len(text) THEN <<SubSeq(text, start, Len(text))>>
    ELSE IF text[i] = "\n"
         THEN <<SubSeq(text, start, i - 1)>> \o CutLines(text, i + 1, i + 1)
         ELSE CutLines(text, start, i + 1)

SplitLines(text) == CutLines(text, 1, 1)

\* The lines of the text the latest invocation returned (every text returned is
\* the latest one in the state its invocation leads to).
LatestLines == SplitLines(call.results[Len(call.results)])

\* Line `first` is in the text, immediately followed by line `second`.
Follows(lines, first, second) ==
    \E i \in 1..(Len(lines) - 1) : lines[i] = first /\ lines[i + 1] = second

HasLine(lines, line) == \E i \in 1..Len(lines) : lines[i] = line

\* A section of the briefing: its header line in either style, followed by the
\* data line when there is data and by the unavailable line when there is none.
SectionShown(lines, conv_header, header, has_data, data_line, unavailable) ==
    Follows(lines, IF CONVERSATIONAL_MODE THEN conv_header ELSE header,
            IF has_data THEN data_line ELSE <<unavailable>>)

\* None of the lines of a section is in the text.
SectionAbsent(lines, conv_header, header, unavailable) ==
    /\ ~HasLine(lines, conv_header)
    /\ ~HasLine(lines, header)
    /\ ~HasLine(lines, <<unavailable>>)

WeatherShown(lines) ==
    SectionShown(lines,
                 <<"Here's the weather for ">> \o call.location_name \o <<":">>,
                 <<"## Weather for ">> \o call.location_name,
                 call.weather_data # None, <<"Today's forecast: ", "L", "r">>,
                 "Weather forecast currently unavailable.")

\* An optional section is shown when enabled and absent when disabled.
NoveltyRendered(lines, enabled, conv_header, header, value, unavailable) ==
    IF enabled
    THEN SectionShown(lines, <<conv_header>>, <<header>>, Truthy(value),
                      IF Truthy(value) THEN value[1] ELSE <<>>, unavailable)
    ELSE SectionAbsent(lines, <<conv_header>>, <<header>>, unavailable)

NoveltiesRendered(lines) ==
    /\ NoveltyRendered(lines, ENABLE_RANDOM_FACT, "Did you know this fact?",
                       "## Fact of the Day", call.random_fact,
                       "Fact of the day currently unavailable.")
    /\ NoveltyRendered(lines, ENABLE_RANDOM_JOKE, "Here's a joke to start your day:",
                       "## Joke of the Day", call.random_joke,
                       "Joke of the day currently unavailable.")
    /\ NoveltyRendered(lines, ENABLE_ONTHISDAY, "And finally, on this day in history:",
                       "## On This Day in History", call.onthisday_event,
                       "On this day in history currently unavailable.")

\* The first line of news item number k (from 1) in the current style.
ItemHeading(k, item) ==
    IF CONVERSATIONAL_MODE
    THEN <<"Headline number ", Digit(k), " from ", item.source, ": ">> \o item.title \o <<".">>
    ELSE <<"### ", Digit(k), ". ">> \o item.title \o <<" (", item.source, ")">>

\* The lines of item k after its heading and its description, up to the blank
\* line that ends the item.
RECURSIVE UntilBlank(_, _)
UntilBlank(lines, i) ==
    IF i > Len(lines) \/ lines[i] = <<>> THEN <<>>
    ELSE <<lines[i]>> \o UntilBlank(lines, i + 1)

ItemExtraLines(lines, k, item) ==
    LET i == CHOOSE i \in 1..Len(lines) : lines[i] = ItemHeading(k, item)
    IN  UntilBlank(lines, i + 2)

ItemShown(lines, k, item) == HasLine(lines, ItemHeading(k, item))

\* How many lines the text must have, each disabled section counting for none.
ExpectedLineCount ==
    LET preview_lines(item) ==
            IF SHOW_FULL_STORY_PREVIEW /\ item.full_story_preview # <<>>
            THEN (IF CONVERSATIONAL_MODE THEN 2 ELSE 1) + (IF SHOW_CONTINUE_LINK THEN 1 ELSE 0)
            ELSE 0
        item_lines[k \in 0..Len(call.news_items)] ==
            IF k = 0 THEN 0 ELSE item_lines[k - 1] + 3 + preview_lines(call.news_items[k])
        enabled(flag) == IF flag THEN 3 ELSE 0
    IN  2 + (IF call.weather_data # None THEN 5 ELSE 3)
          + 2 + (IF call.news_items = <<>> THEN 2 ELSE item_lines[Len(call.news_items)])
          + enabled(ENABLE_RANDOM_FACT) + enabled(ENABLE_RANDOM_JOKE)
          + enabled(ENABLE_ONTHISDAY)

\* C7 as stated: every enabled section appears even without data: weather, and
\* each of fact, joke, on-this-day and story preview whose flag is enabled, has
\* its header followed by the data or by an unavailable line; a disabled section
\* contributes no lines.  For the story preview: with SHOW_FULL_STORY_PREVIEW
\* enabled every news item has at least one line after its description.
C7_EveryEnabledSectionAppears ==
    (FormatCalled /\ call.results # <<>>) =>
        LET lines == LatestLines
        IN  /\ WeatherShown(lines)
            /\ NoveltiesRendered(lines)
            /\ \A k \in 1..Len(call.news_items) :
                 /\ ItemShown(lines, k, call.news_items[k])
                 /\ IF SHOW_FULL_STORY_PREVIEW
                    THEN ItemExtraLines(lines, k, call.news_items[k]) # <<>>
                    ELSE ItemExtraLines(lines, k, call.news_items[k]) = <<>>

\* C7 as amended: the weather section, and each of fact, joke and on-this-day
\* whose flag is enabled, has its header followed by the data or by its fixed
\* unavailable line; a disabled one contributes no lines; the preview of a news
\* item is rendered only when SHOW_FULL_STORY_PREVIEW is enabled and the preview
\* is not empty, and an item with an empty preview gets no preview line and no
\* unavailable line, whatever the flag.
C7_EnabledSectionsAppearExceptEmptyPreviews ==
    (FormatCalled /\ call.results # <<>>) =>
        LET lines == LatestLines
        IN  /\ WeatherShown(lines)
            /\ NoveltiesRendered(lines)
            /\ Len(lines) = ExpectedLineCount
            /\ \A k \in 1..Len(call.news_items) :
                 LET item == call.news_items[k]
                     extra == ItemExtraLines(lines, k, item)
                 IN  /\ ItemShown(lines, k, item)
                     /\ IF SHOW_FULL_STORY_PREVIEW /\ item.full_story_preview # <<>>
                        THEN /\ extra # <<>>
                             /\ extra[IF CONVERSATIONAL_MODE THEN 2 ELSE 1]
                                    = item.full_story_preview
                        ELSE extra = <<>>

\* A text was produced with the fact section enabled and no fact, the joke
\* section disabled, no weather, and previews enabled for an item with a
\* preview and an item without one.
C7_Witness ==
    /\ FormatCalled
    /\ Len(call.results) = 1
    /\ ENABLE_RANDOM_FACT /\ call.random_fact = None
    /\ ~ENABLE_RANDOM_JOKE
    /\ ENABLE_ONTHISDAY /\ call.onthisday_event # None
    /\ call.weather_data = None
    /\ SHOW_FULL_STORY_PREVIEW
    /\ Len(call.news_items) = 2
    /\ call.news_items[1].full_story_preview = <<>>
    /\ call.news_items[2].full_story_preview # <<>>

IsLinkLine(line) ==
    line # <<>> /\ line[1] \in {"You can continue reading more at the link: ",
                                "[Continue reading at "}

LinkLine(item) ==
    IF CONVERSATIONAL_MODE
    THEN <<"You can continue reading more at the link: ">> \o item.link
    ELSE <<"[Continue reading at ">> \o item.link \o <<"]">>

\* C8: the continue-reading line depends on SHOW_CONTINUE_LINK only: enabled, it
\* is rendered for every news item in both styles, whatever
\* SHOW_FULL_STORY_PREVIEW and whether or not the item's preview is empty;
\* disabled, it is rendered for none.
C8_LinkLineGatedBySHOW_CONTINUE_LINKOnly ==
    (FormatCalled /\ call.results # <<>>) =>
        LET lines == LatestLines
        IN  IF SHOW_CONTINUE_LINK
            THEN /\ \A k \in 1..Len(call.news_items) :
                      HasLine(lines, LinkLine(call.news_items[k]))
                 /\ Len(SelectSeq(lines, IsLinkLine)) = Len(call.news_items)
            ELSE SelectSeq(lines, IsLinkLine) = <<>>

\* A text without its first line.
AfterFirstLine(text) ==
    LET k == CHOOSE i \in 1..Len(text) :
                 text[i] = "\n" /\ \A j \in 1..(i - 1) : text[j] # "\n"
    IN  SubSeq(text, k + 1, Len(text))

SamePartOfDay(h1, h2) ==
    LET part(h) == IF h >= 5 /\ h <= 11 THEN 1 ELSE IF h >= 12 /\ h <= 17 THEN 2 ELSE 3
    IN  part(h1) = part(h2)

\* C10 as stated: two invocations with identical arguments and flags return the
\* same text, whatever the wall-clock date and hour of each.
C10_FormatterIgnoresTheClock ==
    (FormatCalled /\ Len(call.results) = 2) => call.results[1] = call.results[2]

\* C10 as amended: two invocations with identical arguments and flags return
\* the same text whenever they run on the same local date and, in the
\* conversational style, in the same part of the day (5-11, 12-17, otherwise);
\* whatever the clock, the two texts differ in their first line at most.
C10_FormatterDeterministicGivenDateAndPartOfDay ==
    (FormatCalled /\ Len(call.results) = 2) =>
        /\ AfterFirstLine(call.results[1]) = AfterFirstLine(call.results[2])
        /\ ( /\ call.clocks[1].today = call.clocks[2].today
             /\ CONVERSATIONAL_MODE =>
                  SamePartOfDay(call.clocks[1].hour, call.clocks[2].hour) )
           => call.results[1] = call.results[2]

\* Two conversational invocations on the same date at 9 and at 10 o'clock gave
\* the same text, with news and a joke in it.
C10_Witness ==
    /\ FormatCalled
    /\ Len(call.results) = 2
    /\ CONVERSATIONAL_MODE
    /\ call.clocks[1].today = call.clocks[2].today
    /\ call.clocks[1].hour = 9 /\ call.clocks[2].hour = 10
    /\ call.news_items # <<>>
    /\ call.random_joke # None
    /\ call.results[1] = call.results[2]

---------------------------------------------------------------------------
(* format_briefing called once at every hour of the day.                   *)

\* line 371: the values of datetime.now().hour.
Hours == 0..23

\* every hour of two days, one of them with a one-digit day of the month
GreetingClocks ==
    { Clock(d, h) : d \in { Date(2026, 11, 5), Date(2027, 1, 31) }, h \in Hours }

InitGreeting ==
    /\ InitIdleRun
    /\ DEBUG = FALSE
    /\ NUM_NEWS_ITEMS = 10
    /\ SHOW_FULL_STORY_PREVIEW = FALSE
    /\ SHOW_FULL_STORY_PARAGRAPHS = 2
    /\ SHOW_CONTINUE_LINK = TRUE
    /\ CONVERSATIONAL_MODE \in BOOLEAN
    /\ ENABLE_RANDOM_FACT = FALSE
    /\ ENABLE_RANDOM_JOKE = FALSE
    /\ ENABLE_ONTHISDAY = FALSE
    /\ \E wd \in {None, Some([description |-> <<"l", "R">>, max_temp |-> 205,
                              min_temp |-> 95, feels_like |-> 185])},
          news_items \in Lists(FormatItems, 1) :
         call = [fn |-> "format_briefing",
                 weather_data |-> wd, news_items |-> news_items, random_fact |-> None,
                 random_joke |-> None, onthisday_event |-> None,
                 location_name |-> <<"London">>,
                 clocks |-> <<>>, results |-> <<>>]

\* lines 380-479: the invocation, at any hour of the day.
GreetingCall ==
    /\ call.fn = "format_briefing"
    /\ call.results = <<>>
    /\ \E clock \in GreetingClocks :
         call' = [call EXCEPT
                    !.clocks = Append(@, clock),
                    !.results = Append(@, format_briefing(
                        call.weather_data, call.news_items, call.random_fact,
                        call.random_joke, call.onthisday_event, call.location_name,
                        clock.today, clock.hour))]
    /\ UNCHANGED <<config_vars, run_vars, io_vars>>

NextGreeting == GreetingCall

SpecGreeting == InitGreeting /\ [][NextGreeting]_vars

---------------------------------------------------------------------------
(* Claims about the first line of the briefing, under SpecGreeting.        *)

\* The greeting the documentation assigns to a local hour.
GreetingOfHour(h) ==
    IF 5 <= h /\ h <= 11 THEN "Good morning"
    ELSE IF 12 <= h /\ h <= 17 THEN "Good afternoon"
    ELSE "Good evening"

Greetings == { "Good morning", "Good afternoon", "Good evening" }

\* C11: in conversational mode the first line of the briefing is
\* "<greeting>! This is your daily briefing for <today's date>." where the
\* greeting is "Good morning" iff 5 <= h <= 11, "Good afternoon" iff
\* 12 <= h <= 17 and "Good evening" otherwise, for every local hour h in 0..23;
\* in structured mode no greeting appears anywhere and the first line is the
\* "# Daily Briefing - <date>" heading.
C11_FirstLineGreetsByHour ==
    (FormatCalled /\ call.results # <<>>) =>
        LET clock == call.clocks[Len(call.clocks)]
            text  == call.results[Len(call.results)]
            first == LatestLines[1]
        IN  IF CONVERSATIONAL_MODE
            THEN /\ first = <<GreetingOfHour(clock.hour),
                              "! This is your daily briefing for ">>
                            \o Strftime(clock.today) \o <<".">>
                 /\ \A g \in Greetings :
                      first[1] = g <=>
                        CASE g = "Good morning"   -> clock.hour \in 5..11
                          [] g = "Good afternoon" -> clock.hour \in 12..17
                          [] g = "Good evening"   -> clock.hour \in (0..4) \cup (18..23)
            ELSE /\ first = <<"# Daily Briefing - ">> \o Strftime(clock.today)
                 /\ \A i \in 1..Len(text) : text[i] \notin Greetings

\* A conversational briefing produced at 4 o'clock in the night of Sunday
\* 31 January 2027 begins with the evening greeting and that date.
C11_Witness ==
    /\ FormatCalled
    /\ call.results # <<>>
    /\ CONVERSATIONAL_MODE
    /\ call.clocks[1] = Clock(Date(2027, 1, 31), 4)
    /\ LatestLines[1] = <<"Good evening", "! This is your daily briefing for ",
                          "Sunday", ", ", "3", "1", " ", "January", " ",
                          "2", "0", "2", "7", ".">>

---------------------------------------------------------------------------
(* get_article_preview called on every small parsed page.                  *)

\* The largest number of elements of a page.
MaxNodes == 3

\* The largest SHOW_FULL_STORY_PARAGRAPHS.
MaxParagraphs == 2

\* what an element of a page can be: a paragraph of exactly 100 or of 101
\* characters, a container of the selector list by class or by tag, a
\* navigation or footer region
Shapes == { "p100", "p101", "div.article-body", "article", "nav" }

Depths == 0..2

\* the element at position i of a page; the text of a paragraph names its position
NodeAt(i, shape, depth) ==
    CASE shape = "p100" -> Paragraph(depth, <<"p", Digit(i)>>, 100)
      [] shape = "p101" -> Paragraph(depth, <<"p", Digit(i)>>, 101)
      [] shape = "div.article-body" -> Element("div", "article-body", depth)
      [] shape = "article" -> Element("article", "", depth)
      [] shape = "nav" -> Element("nav", "", depth)

\* the depths are those of a tree in document order, whose paragraphs are leaves
WellNested(doc) ==
    /\ doc # <<>> => doc[1].depth = 0
    /\ \A i \in 2..Len(doc) :
         doc[i].depth <= doc[i - 1].depth + (IF doc[i - 1].name = "p" THEN 0 ELSE 1)

\* the page of the elements f gives, position by position
DocOf(f) == [i \in DOMAIN f |-> NodeAt(i, f[i][1], f[i][2])]

\* the request or the parsing fails
FailingArticleResponses ==
    { PreviewResponse("RequestException", "ok", <<>>),
      PreviewResponse("ok", "Exception", <<>>) }

InitPreview ==
    /\ InitIdleRun
    /\ DEBUG = FALSE
    /\ NUM_NEWS_ITEMS = 10
    /\ SHOW_FULL_STORY_PREVIEW = TRUE
    /\ SHOW_FULL_STORY_PARAGRAPHS \in 0..MaxParagraphs
    /\ SHOW_CONTINUE_LINK = TRUE
    /\ CONVERSATIONAL_MODE = FALSE
    /\ ENABLE_RANDOM_FACT = FALSE
    /\ ENABLE_RANDOM_JOKE = FALSE
    /\ ENABLE_ONTHISDAY = FALSE
    /\ \/ \E resp \in FailingArticleResponses :
            call = [fn |-> "get_article_preview", resp |-> resp, returned |-> FALSE,
                    raised |-> None, result |-> <<>>]
       \/ \E n \in 0..MaxNodes : \E f \in [1..n -> Shapes \X Depths] :
            /\ WellNested(DocOf(f))
            /\ call = [fn |-> "get_article_preview",
                       resp |-> PreviewResponse("ok", "ok", DocOf(f)),
                       returned |-> FALSE, raised |-> None, result |-> <<>>]

\* lines 93-156: the call returns or raises (line 215 gives it
\* SHOW_FULL_STORY_PARAGRAPHS).
PreviewCall ==
    /\ call.fn = "get_article_preview"
    /\ ~call.returned
    /\ LET r == get_article_preview(<<"u">>, SHOW_FULL_STORY_PARAGRAPHS, call.resp)
       IN  /\ call' = [call EXCEPT !.returned = TRUE, !.raised = r.raised,
                                   !.result = r.value]
           /\ stdout' = stdout \o r.out
           /\ stderr' = stderr \o r.err
           /\ requests' = requests \o r.reqs
    /\ UNCHANGED <<config_vars, run_vars, exit_status, answers>>

NextPreview == PreviewCall

SpecPreview == InitPreview /\ [][NextPreview]_vars

---------------------------------------------------------------------------
(* Claims about get_article_preview, under SpecPreview.                    *)

PreviewReturned == call.fn = "get_article_preview" /\ call.returned

\* The selectors of the list that match some element of the page.
MatchingSelectors(doc) ==
    { k \in 1..Len(content_selectors) :
        \E i \in 1..Len(doc) :
            /\ doc[i].name = content_selectors[k].name
            /\ content_selectors[k].class \in {"", doc[i].class} }

\* The scope: inside the first element matched by the first matching selector,
\* else the whole page.
ChosenScope(doc) ==
    IF MatchingSelectors(doc) = {} THEN 1..Len(doc)
    ELSE LET k == KthSmallest(MatchingSelectors(doc), 1)
             c == KthSmallest({ i \in 1..Len(doc) :
                                  /\ doc[i].name = content_selectors[k].name
                                  /\ content_selectors[k].class \in {"", doc[i].class} }, 1)
         IN  Descendants(doc, c)

\* The paragraphs of the scope with more than 100 characters and no header,
\* footer or nav ancestor.
Qualifying(doc) ==
    { i \in ChosenScope(doc) :
        /\ doc[i].name = "p"
        /\ doc[i].length > 100
        /\ \A a \in 1..(i - 1) :
             i \in Descendants(doc, a) => doc[a].name \notin {"header", "footer", "nav"} }

\* C12: get_article_preview never raises; it returns the first min(N, k)
\* qualifying paragraphs of the chosen scope, in document order, joined by a
\* blank line, k being the number of qualifying paragraphs of the scope; it
\* returns the empty string when none qualifies and on any network or parse
\* error.
C12_PreviewIsFirstQualifyingParagraphs ==
    PreviewReturned =>
        /\ call.raised = None
        /\ IF call.resp.net # "ok" \/ call.resp.parse # "ok"
           THEN call.result = <<>>
           ELSE LET doc == call.resp.doc
                    k == Cardinality(Qualifying(doc))
                    n == IF SHOW_FULL_STORY_PARAGRAPHS < k
                         THEN SHOW_FULL_STORY_PARAGRAPHS ELSE k
                IN  /\ call.result =
                         JoinBlank([j \in 1..n |-> doc[KthSmallest(Qualifying(doc), j)].text])
                    /\ k = 0 => call.result = <<>>

\* Two paragraphs were asked of a page whose container holds exactly two
\* qualifying paragraphs: both came back, in document order, a blank line
\* between them.
C12_Witness ==
    /\ PreviewReturned
    /\ call.resp.net = "ok" /\ call.resp.parse = "ok"
    /\ SHOW_FULL_STORY_PARAGRAPHS = 2
    /\ MatchingSelectors(call.resp.doc) # {}
    /\ Cardinality(Qualifying(call.resp.doc)) = 2
    /\ call.result = <<"p", "2", "\n", "\n", "p", "3">>

---------------------------------------------------------------------------
(* Runs where feeds longer than the cap answer, under several values of    *)
(* NUM_NEWS_ITEMS.                                                         *)

\* int(os.getenv('NUM_NEWS_ITEMS', '10')) (line 22) takes any integer: a
\* negative one, zero, fewer and more than the unique items, and one above 10,
\* where the cap per source is no longer 20
NewsLimits == { -1, 0, 1, 2, 11 }

\* a feed of 21 entries: twenty times the same story, then another one
LongFeed == [i \in 1..21 |-> IF i <= 20 THEN E1 ELSE E4]

LimitFeedResponses ==
    { FeedResponse("RequestException", "ok", None, None),
      FeedResponse("ok", "ok", Some(<<E1>>), None),
      FeedResponse("ok", "ok", Some(<<E1, E4>>), None),
      FeedResponse("ok", "ok", Some(<<E3, E2, E4>>), None),
      FeedResponse("ok", "ok", Some(LongFeed), None) }

\* previews are disabled in these runs: no article page is asked for
NoPreviewResponses == { PreviewResponse("RequestException", "ok", <<>>) }

InitLimit ==
    /\ InitRun
    /\ call = NoCall
    /\ DEBUG = FALSE
    /\ NUM_NEWS_ITEMS \in NewsLimits
    /\ SHOW_FULL_STORY_PREVIEW = FALSE
    /\ SHOW_FULL_STORY_PARAGRAPHS = 2
    /\ SHOW_CONTINUE_LINK = TRUE
    /\ CONVERSATIONAL_MODE = FALSE
    /\ ENABLE_RANDOM_FACT = FALSE
    /\ ENABLE_RANDOM_JOKE = FALSE
    /\ ENABLE_ONTHISDAY = FALSE
    /\ NoOverride(Some(<<"London">>), Some(<<"k">>))

NextLimit ==
    \/ ResolveLocation
    \/ CheckApiKey
    \/ FetchNews(LimitFeedResponses, NoPreviewResponses)
    \/ Aggregate
    \/ FetchWeather(SmallWeatherResponses)
    \/ FetchFact(SmallNoveltyResponses)
    \/ FetchJoke(SmallNoveltyResponses)
    \/ FetchOnThisDay(SmallNoveltyResponses)
    \/ FormatAndPrint(RunClocks)

SpecLimit == InitLimit /\ [][NextLimit]_vars

---------------------------------------------------------------------------
(* Claims about the list given to the formatter, under SpecLimit.          *)

\* The list is computed: the run is past the aggregation.
Aggregated == pc \in {"fetch_weather", "fetch_fact", "fetch_joke", "fetch_onthisday",
                      "format", "exit"}

\* The entries read from a source: none of a failed feed, else the first
\* max(NUM_NEWS_ITEMS, 10) * 2 of the feed.
EntriesRead(answer) ==
    LET cap == (IF NUM_NEWS_ITEMS > 10 THEN NUM_NEWS_ITEMS ELSE 10) * 2
    IN  IF FeedFailed(answer) THEN <<>>
        ELSE SubSeq(AnsweredElements(answer), 1,
                    IF Len(AnsweredElements(answer)) < cap
                    THEN Len(AnsweredElements(answer)) ELSE cap)

\* The item of the list stands for that entry of that source.
ItemOfEntry(item, entry, feed) ==
    /\ item.source = feed.source
    /\ Truthy(entry.title) => item.title = Strip(entry.title[1])
    /\ Truthy(entry.description) => item.description = Strip(entry.description[1])

\* C13: the list given to the formatter is a prefix of the deduplicated
\* concatenation, in configured source order and feed order, of each source's
\* first max(NUM_NEWS_ITEMS, 10) * 2 entries; it has at most NUM_NEWS_ITEMS
\* entries, exactly min(NUM_NEWS_ITEMS, number of unique items), for any
\* configured integer NUM_NEWS_ITEMS.
C13_FinalListIsCappedDedupPrefix ==
    Aggregated =>
        LET first == FirstPositions(all_news_results)
            kept == SelectSeq([i \in 1..Len(all_news_results) |-> i],
                              LAMBDA i : i \in first)
            unique == [k \in 1..Len(kept) |-> all_news_results[kept[k]]]
        IN  /\ \A i \in 1..NumFeeds :
                 /\ Len(all_news_promises[i]) = Len(EntriesRead(answers[i]))
                 /\ \A j \in 1..Len(all_news_promises[i]) :
                      ItemOfEntry(all_news_promises[i][j], EntriesRead(answers[i])[j],
                                  RSS_FEEDS[i])
            /\ all_news_results = ConcatAll(all_news_promises)
            /\ Len(final_news_items) <= NUM_NEWS_ITEMS
            /\ Len(final_news_items) =
                 (IF NUM_NEWS_ITEMS < Len(unique) THEN NUM_NEWS_ITEMS ELSE Len(unique))
            /\ final_news_items = SubSeq(unique, 1, Len(final_news_items))

---------------------------------------------------------------------------
(* Claims about the external calls of a run, under Spec.                   *)

\* The positions of the requests made by a function.
RequestsOf(fn) == { i \in 1..Len(requests) : requests[i].fn = fn }

FeedRequests == SelectSeq(requests, LAMBDA r : r.fn = "fetch_news")

\* The novelty fetchers with their flags.
NoveltyFetchers ==
    { <<"fetch_random_fact", ENABLE_RANDOM_FACT>>,
      <<"fetch_random_joke", ENABLE_RANDOM_JOKE>>,
      <<"fetch_on_this_day_event", ENABLE_ONTHISDAY>> }

DocumentWritten == \E i \in 1..Len(stdout) : stdout[i].level = "document"

\* The feeds are asked once each in configured order; the weather endpoint at
\* most once, after every feed and article request; a novelty endpoint at most
\* once and only if enabled, after the weather request; a run that ends well
\* has asked every feed, the weather endpoint and the enabled novelty endpoints
\* exactly once, and the document is written in such a run only, at its end.
CallsMadeOnceInOrder ==
    /\ FeedRequests = [i \in 1..Len(all_news_promises) |->
                         Request("fetch_news", <<RSS_FEEDS[i].url>>)]
    /\ Cardinality(RequestsOf("fetch_weather")) <= 1
    /\ \A w \in RequestsOf("fetch_weather") :
         /\ Len(FeedRequests) = NumFeeds
         /\ \A i \in RequestsOf("fetch_news") \cup RequestsOf("get_article_preview") :
              i < w
    /\ \A f \in NoveltyFetchers :
         /\ Cardinality(RequestsOf(f[1])) <= (IF f[2] THEN 1 ELSE 0)
         /\ \A i \in RequestsOf(f[1]) : \E w \in RequestsOf("fetch_weather") : w < i
    /\ exit_status = Some(0) =>
         /\ Len(FeedRequests) = NumFeeds
         /\ Cardinality(RequestsOf("fetch_weather")) = 1
         /\ \A f \in NoveltyFetchers :
              Cardinality(RequestsOf(f[1])) = (IF f[2] THEN 1 ELSE 0)
    /\ DocumentWritten => exit_status = Some(0) /\ pc = "exit"
    /\ pc = "exit" /\ exit_status = Some(0) => DocumentWritten

\* The article pages asked for.
ArticleUrls == { requests[i].url : i \in RequestsOf("get_article_preview") }

\* How many times an article page was asked for.
TimesRequested(url) ==
    Cardinality({ i \in RequestsOf("get_article_preview") : requests[i].url = url })

\* How many of the entries read from the feeds carry that link.
TimesLinked(url) ==
    Cardinality({ i \in 1..Len(FetchedItems) : FetchedItems[i].link = url })

---------------------------------------------------------------------------
(* fetch_news called on well-formed RSS and Atom documents.                *)

\* An element of an XML document as ElementTree gives it: its qualified tag,
\* its href attribute and its text if it has them, and its children.
Xml(tag, href, text, children) ==
    [tag |-> tag, href |-> href, text |-> text, children |-> children]

\* Element.find(tag): the first child with that tag, None without one.
find(element, tag) ==
    LET found == { i \in 1..Len(element.children) : element.children[i].tag = tag }
    IN  IF found = {} THEN None
        ELSE Some(element.children[CHOOSE i \in found : \A j \in found : i <= j])

\* Element.findall(tag): the children with that tag, in document order.
findall(element, tag) == SelectSeq(element.children, LAMBDA child : child.tag = tag)

\* lines 200-202: item_element.find('title'), find('description'), find('link')
\* with the text of each; an element without text has the empty text.
lookup_item(item_element) ==
    LET text_of(tag) == IF find(item_element, tag) = None THEN None
                        ELSE IF find(item_element, tag)[1].text = None THEN Some(<<>>)
                        ELSE find(item_element, tag)[1].text
    IN  ItemElement(text_of("title"), text_of("description"), text_of("link"))

lookup_items(elements) == [i \in 1..Len(elements) |-> lookup_item(elements[i])]

\* lines 172-189: what root.find('channel') with channel.findall('item') and
\* root.find('{http://www.w3.org/2005/Atom}feed') with
\* feed.findall('{http://www.w3.org/2005/Atom}entry') give on a parsed document.
XmlResponse(root) ==
    FeedResponse("ok", "ok",
        IF find(root, "channel") = None THEN None
        ELSE Some(lookup_items(findall(find(root, "channel")[1], "item"))),
        IF find(root, "{http://www.w3.org/2005/Atom}feed") = None THEN None
        ELSE Some(lookup_items(findall(find(root, "{http://www.w3.org/2005/Atom}feed")[1],
                                       "{http://www.w3.org/2005/Atom}entry"))))

\* The children of an element that are there.
Present(children) == SelectSeq(children, LAMBDA child : child # None)

\* <rss><channel><item><title>..</title><description>..</description>
\* <link>..</link></item>..</channel></rss>
RssDocument(entries) ==
    LET child(tag, text) == IF text = None THEN None ELSE Xml(tag, None, text, <<>>)
        item(e) == Xml("item", None, None,
                       Present(<<child("title", e.title), child("description", e.description),
                                 child("link", e.link)>>))
    IN  Xml("rss", None, None,
            <<Xml("channel", None, None, [i \in 1..Len(entries) |-> item(entries[i])])>>)

\* <feed xmlns="http://www.w3.org/2005/Atom"><entry><title>..</title>
\* <summary>..</summary><link href=".."/></entry>..</feed>
AtomDocument(entries) ==
    LET child(tag, text) == IF text = None THEN None ELSE Xml(tag, None, text, <<>>)
        link(url) == IF url = None THEN None
                     ELSE Xml("{http://www.w3.org/2005/Atom}link", url, None, <<>>)
        entry(e) == Xml("{http://www.w3.org/2005/Atom}entry", None, None,
                        Present(<<child("{http://www.w3.org/2005/Atom}title", e.title),
                                  child("{http://www.w3.org/2005/Atom}summary", e.description),
                                  link(e.link)>>))
    IN  Xml("{http://www.w3.org/2005/Atom}feed", None, None,
            [i \in 1..Len(entries) |-> entry(entries[i])])

\* The longest list of entries of a document, the 21-entry one apart.
MaxEntries == 2

\* what an entry holds: a title or none, a summary or none, a link or none
Entries ==
    { ItemElement(title, description, link) :
        title \in { None, Some(<<"A">>), Some(<<" ", "b">>) },
        description \in { None, Some(<<"x">>) },
        link \in { None, Some(<<"u">>) } }

\* A document of up to MaxEntries entries, or of more entries than the cap.
InitSyndication ==
    /\ InitIdleRun
    /\ DEBUG \in BOOLEAN
    /\ DefaultFlags
    /\ \E format \in { "rss", "atom" }, entries \in Lists(Entries, MaxEntries) \cup { LongFeed } :
         call = [fn |-> "fetch_news", format |-> format, entries |-> entries,
                 resp |-> XmlResponse(IF format = "rss" THEN RssDocument(entries)
                                      ELSE AtomDocument(entries)),
                 returned |-> FALSE, raised |-> None, result |-> <<>>]

\* lines 159-229: the call returns or raises.
SyndicationCall ==
    /\ call.fn = "fetch_news"
    /\ ~call.returned
    /\ \E presps \in [1..Len(item_elements(call.resp)) -> NoPreviewResponses] :
         LET r == fetch_news(RSS_FEEDS[1], call.resp, presps)
         IN  /\ call' = [call EXCEPT !.returned = TRUE, !.raised = r.raised,
                                     !.result = r.value]
             /\ stdout' = stdout \o r.out
             /\ stderr' = stderr \o r.err
             /\ requests' = requests \o r.reqs
    /\ UNCHANGED <<config_vars, run_vars, exit_status, answers>>

SpecSyndication == InitSyndication /\ [][SyndicationCall]_vars

---------------------------------------------------------------------------
(* Claims about the feed formats, under SpecSyndication.                   *)

FeedReturned == call.fn = "fetch_news" /\ call.returned

\* The item carries the entry's own title, summary and link, a placeholder
\* standing only for a field the entry lacks.
CarriesEntry(item, entry) ==
    /\ item.title = IF entry.title = None THEN <<"No Title">> ELSE Strip(entry.title[1])
    /\ item.description = IF entry.description = None THEN <<"No Description">>
                          ELSE Strip(entry.description[1])
    /\ item.link = IF entry.link = None THEN <<"#">> ELSE Strip(entry.link[1])

\* C15: for a well-formed RSS document and equally for a well-formed Atom
\* document, fetch_news returns one item per entry up to the cap per source,
\* in feed order, carrying the entry's own title and link; the placeholders
\* and the "#" marker stand only for the fields an entry lacks.
C15_BothFeedFormatsAreParsed ==
    FeedReturned =>
        LET cap == (IF NUM_NEWS_ITEMS > 10 THEN NUM_NEWS_ITEMS ELSE 10) * 2
            n == IF Len(call.entries) < cap THEN Len(call.entries) ELSE cap
        IN  /\ call.raised = None
            /\ Len(call.result) = n
            /\ \A j \in 1..Len(call.result) :
                 /\ j <= n => CarriesEntry(call.result[j], call.entries[j])
                 /\ call.result[j].source = RSS_FEEDS[1].source

=============================================================================
